---- MODULE Spec2Model ----
(***************************************************************************)
(* A model of wazuh-rust-tui's core: the authenticated gateway and the     *)
(* domain operations built on it (src/api/mod.rs), the update channel and  *)
(* its reducer, the key handlers and the spawned fetch operations of the   *)
(* main loop (src/main.rs, src/app/mod.rs), the search filter              *)
(* (src/app/filter.rs) and the agent list drawn with it (src/ui/agents.rs).*)
(*                                                                         *)
(* An Option<T> is a sequence of length at most one: None is <<>> and      *)
(* Some(x) is <<x>>.                                                       *)
(***************************************************************************)
EXTENDS Integers, Sequences, FiniteSets, TLC

VARIABLES
    token,      \* WazuhApi.token: the Credential Cell, Option<String>
    config,     \* WazuhApi.config: the Config the gateway was built with
    call,       \* per concurrent caller of WazuhApi::request: its position and locals
    app,        \* the App of main(): the Application State
    chan,       \* the messages queued in the mpsc channel (tx, rx), oldest first
    mainPc,     \* where main()'s loop stands
    drained,    \* the messages the running drain loop has received so far
    applied,    \* every message the drain loop has ever applied
    tasks,      \* the operations spawned with tokio::spawn, in spawn order
    filtered_agents, \* draw_agent_list's local: the agents the frame of this iteration lists
    budget      \* what the run may still use: spawns, backend answers, failures, messages

gatewayVars == <<token, config, call>>

mainVars == <<app, chan, mainPc, drained, applied, tasks, filtered_agents, budget>>

vars ==
    <<token, config, call, app, chan, mainPc, drained, applied, tasks, filtered_agents, budget>>

None == <<>>
Some(x) == <<x>>

(***************************************************************************)
(* Bounds of the gateway model.                                            *)
(***************************************************************************)
\* concurrent callers holding clones of one WazuhApi (they share the Arc'd cell)
NumCallers == 2
\* distinct bearer tokens the authentication endpoint may hand out
MaxToken == 2

Callers == 1..NumCallers
Tokens == 1..MaxToken

(***************************************************************************)
(* What the backend may answer.  The status of a response is the server's  *)
(* choice (a token can expire at any time), so every send draws it from    *)
(* HttpStatuses; a send can also fail in transport (connection, timeout).  *)
(***************************************************************************)
StatusOk == 200
StatusUnauthorized == 401
StatusServerError == 500
HttpStatuses == {StatusOk, StatusUnauthorized, StatusServerError}

\* reqwest::StatusCode::is_success
IsSuccess(status) == status >= 200 /\ status < 300

\* the (method, url, body) a domain operation passes to request().  request()
\* never looks into its arguments, so each caller runs one domain operation: the
\* odd callers list_agents (a GET without a body), the even ones
\* update_agent_config (a PUT with one)
RequestOf(p) ==
    IF p % 2 = 1 THEN [method |-> "GET", body |-> None]
                 ELSE [method |-> "PUT", body |-> Some("config")]

NoRequest == [method |-> "-", body |-> None]

\* the value request() returns: Ok(response) or Err(error)
NoResult == [kind |-> "pending", status |-> 0, body |-> 0]
OkResult(status, n) == [kind |-> "Ok", status |-> status, body |-> n]
\* anyhow!("Request failed with status {}: {}", status, error_text)
StatusError(status, n) == [kind |-> "HttpStatusError", status |-> status, body |-> n]
\* anyhow!("Authentication failed with status: {}", status)
AuthError(status) == [kind |-> "AuthError", status |-> status, body |-> 0]
\* a `?` on send(), json() or text(): connection, timeout or malformed body
TransportError == [kind |-> "TransportError", status |-> 0, body |-> 0]

\* models::Config: of it the model keeps whether the search endpoint is set
\* (os_url) and whether both of its credentials are (os_username, os_password)
Configs == [os_url : BOOLEAN, os_credentials : BOOLEAN]

\* the Config the wizard's Confirm step builds: every field is Some
WizardConfig == [os_url |-> TRUE, os_credentials |-> TRUE]

\* where the local `token` of request() has its value from: the cell, read
\* by get_token, or the return value of authenticate()
FromCell == "cell"
FromAuthenticate == "authenticate"

\* the credentials an HTTP call carries: basic_auth(..), bearer_auth(token)
\* with where that token is from, or neither
BasicAuth == [scheme |-> "basic", from |-> "-"]
BearerAuth(from) == [scheme |-> "bearer", from |-> from]
NoAuth == [scheme |-> "none", from |-> "-"]

\* an HTTP call on the wire: the endpoint it goes to and what it carries
HttpCall(to, cred) == [to |-> to, cred |-> cred]

IdleCall ==
    [ pc      |-> "idle",     \* where the caller stands inside request()
      req     |-> NoRequest,  \* the (method, url, body) being executed
      args    |-> None,       \* the arguments of the domain operation being executed
      response |-> None,      \* what response.json() parsed from the body
      tok     |-> None,       \* the local `token` of request()
      tokFrom |-> "-",        \* where that token is from
      fresh   |-> None,       \* authenticate()'s local `token`, not yet stored
      first   |-> 0,          \* `status`: response.status() of the first response
      second  |-> 0,          \* the status of the retried request's response
      sent    |-> <<>>,       \* the requests this call has put on the wire, in order
      seen    |-> "-",        \* what get_token found in the cell: "absent" or "present"
      wire    |-> <<>>,       \* every HTTP call of this call, in order, with its credentials
      auths   |-> 0,          \* credential exchanges this call has performed
      reauths |-> 0,          \* of them, those made after a 401
      ret     |-> NoResult ]

InitCell ==
    /\ token = None
    /\ config = WizardConfig
    /\ call = [p \in Callers |-> IdleCall]

\* a domain operation enters request(method, url, body)
Request(p) ==
    /\ call[p].pc = "idle"
    /\ call' = [call EXCEPT ![p] =
                  [IdleCall EXCEPT !.pc = "get_token", !.req = RequestOf(p)]]
    /\ UNCHANGED <<token, config, mainVars>>

\* a get_token that exchanges credentials whatever the cell holds
GetTokenEager(p) ==
    /\ call[p].pc = "get_token"
    /\ call' = [call EXCEPT ![p] =
                  [@ EXCEPT !.pc = "authenticate",
                            !.seen = IF token # None THEN "present" ELSE "absent"]]
    /\ UNCHANGED <<token, config, mainVars>>

\* get_token: read the cell under the read lock; the lock is released before
\* authenticate() is called
GetToken(p) ==
    /\ call[p].pc = "get_token"
    /\ call' = [call EXCEPT ![p] =
                  IF token # None
                    THEN [@ EXCEPT !.pc = "send1", !.tok = token, !.tokFrom = FromCell,
                                   !.seen = "present"]
                    ELSE [@ EXCEPT !.pc = "authenticate", !.seen = "absent"]]
    /\ UNCHANGED <<token, config, mainVars>>

\* the state of a call that has returned `r`: its locals are gone
Returned(c, r) ==
    [c EXCEPT !.pc = "done", !.tok = None, !.tokFrom = "-", !.fresh = None, !.ret = r]

\* an authenticate() that empties the cell when the exchange fails
AuthenticateFromClearing(p, at, stored) ==
    /\ call[p].pc = at
    /\ LET c == [call[p] EXCEPT !.auths = @ + 1,
                                !.reauths = IF at = "reauthenticate" THEN @ + 1 ELSE @,
                                !.wire = Append(@, HttpCall("authenticate", BasicAuth))]
       IN \/ /\ \E t \in Tokens :
                   call' = [call EXCEPT ![p] = [c EXCEPT !.pc = stored, !.fresh = Some(t)]]
             /\ token' = token
          \/ /\ \E s \in HttpStatuses \ {StatusOk} :
                   call' = [call EXCEPT ![p] = Returned(c, AuthError(s))]
             /\ token' = None
          \/ /\ call' = [call EXCEPT ![p] = Returned(c, TransportError)]
             /\ token' = None
    /\ UNCHANGED <<config, mainVars>>

\* authenticate(): the basic-auth POST and the parse of its answer, for a caller
\* standing at `at`; `stored` is where it stands once it holds the new token
AuthenticateFrom(p, at, stored) ==
    /\ call[p].pc = at
    /\ LET c == [call[p] EXCEPT !.auths = @ + 1,
                                !.reauths = IF at = "reauthenticate" THEN @ + 1 ELSE @,
                                !.wire = Append(@, HttpCall("authenticate", BasicAuth))]
       IN \/ \E t \in Tokens :           \* success status and a well-formed body
                call' = [call EXCEPT ![p] = [c EXCEPT !.pc = stored, !.fresh = Some(t)]]
          \/ \E s \in HttpStatuses \ {StatusOk} :
                call' = [call EXCEPT ![p] = Returned(c, AuthError(s))]
          \/ call' = [call EXCEPT ![p] = Returned(c, TransportError)]
    /\ UNCHANGED <<token, config, mainVars>>

\* a single-flight authenticate(): a caller that finds the cell populated by
\* now takes the cached token instead of exchanging credentials again
AuthenticateSingleFlight(p) ==
    IF call[p].pc = "authenticate" /\ token # None
      THEN /\ call' = [call EXCEPT ![p] = [@ EXCEPT !.pc = "send1", !.tok = token, !.tokFrom = FromCell]]
           /\ UNCHANGED <<token, config, mainVars>>
      ELSE AuthenticateFrom(p, "authenticate", "store")

\* authenticate() called by get_token
Authenticate(p) == AuthenticateFrom(p, "authenticate", "store")

\* authenticate() called by request() after a 401
Reauthenticate(p) == AuthenticateFrom(p, "reauthenticate", "restore")

\* an authenticate() that keeps the token the cell already holds
StoreFromIfAbsent(p, at, after) ==
    /\ call[p].pc = at
    /\ token' = IF token = None THEN call[p].fresh ELSE token
    /\ call' = [call EXCEPT ![p] =
                  [@ EXCEPT !.pc = after, !.tok = call[p].fresh,
                            !.tokFrom = FromAuthenticate, !.fresh = None]]
    /\ UNCHANGED <<config, mainVars>>

\* authenticate(): take the write lock, overwrite the cell, return the token,
\* which the caller binds to its local `token`
StoreFrom(p, at, after) ==
    /\ call[p].pc = at
    /\ token' = call[p].fresh
    /\ call' = [call EXCEPT ![p] =
                  [@ EXCEPT !.pc = after, !.tok = call[p].fresh,
                            !.tokFrom = FromAuthenticate, !.fresh = None]]
    /\ UNCHANGED <<config, mainVars>>

StoreToken(p) == StoreFrom(p, "store", "send1")

\* a retry that reuses the local bound before the first send: the cell is
\* overwritten but the token authenticate() returns is dropped
RestoreTokenKeepingRejected(p) ==
    /\ call[p].pc = "restore"
    /\ token' = call[p].fresh
    /\ call' = [call EXCEPT ![p] = [@ EXCEPT !.pc = "send2", !.fresh = None]]
    /\ UNCHANGED <<config, mainVars>>

RestoreToken(p) == StoreFrom(p, "restore", "send2")

\* a first send that drops the cached token when the server answers 401
Send1Invalidating(p) ==
    /\ call[p].pc = "send1"
    /\ LET c == [call[p] EXCEPT !.sent = Append(@, call[p].req),
                                !.wire = Append(@, HttpCall("api", BearerAuth(call[p].tokFrom)))]
       IN \/ /\ call' = [call EXCEPT ![p] = Returned(c, TransportError)]
             /\ token' = token
          \/ \E s \in HttpStatuses :
               /\ call' = [call EXCEPT ![p] =
                     IF s = StatusUnauthorized
                       THEN [c EXCEPT !.pc = "reauthenticate", !.first = s]
                       ELSE IF ~IsSuccess(s)
                         THEN [c EXCEPT !.pc = "body", !.first = s, !.tok = None, !.tokFrom = "-"]
                         ELSE Returned([c EXCEPT !.first = s], OkResult(s, 1))]
               /\ token' = IF s = StatusUnauthorized THEN None ELSE token
    /\ UNCHANGED <<config, mainVars>>

\* the first rb.send().await and the branch on its status
Send1(p) ==
    /\ call[p].pc = "send1"
    /\ LET c == [call[p] EXCEPT !.sent = Append(@, call[p].req),
                                !.wire = Append(@, HttpCall("api", BearerAuth(call[p].tokFrom)))]
       IN \/ call' = [call EXCEPT ![p] = Returned(c, TransportError)]
          \/ \E s \in HttpStatuses :
               call' = [call EXCEPT ![p] =
                  IF s = StatusUnauthorized
                    THEN [c EXCEPT !.pc = "reauthenticate", !.first = s]
                    ELSE IF ~IsSuccess(s)
                      THEN [c EXCEPT !.pc = "body", !.first = s, !.tok = None, !.tokFrom = "-"]
                      ELSE Returned([c EXCEPT !.first = s], OkResult(s, 1))]
    /\ UNCHANGED <<token, config, mainVars>>

\* a retry that treats a second 401 like the first: reauthenticate and retry
Send2Looping(p) ==
    /\ call[p].pc = "send2"
    /\ LET c == [call[p] EXCEPT !.sent = Append(@, call[p].req),
                                !.wire = Append(@, HttpCall("api", BearerAuth(call[p].tokFrom)))]
       IN \/ call' = [call EXCEPT ![p] = Returned(c, TransportError)]
          \/ \E s \in HttpStatuses :
               call' = [call EXCEPT ![p] =
                  IF s = StatusUnauthorized
                    THEN [c EXCEPT !.pc = "reauthenticate", !.second = s]
                    ELSE IF ~IsSuccess(s)
                      THEN [c EXCEPT !.pc = "body", !.second = s, !.tok = None, !.tokFrom = "-"]
                      ELSE Returned([c EXCEPT !.second = s], OkResult(s, 2))]
    /\ UNCHANGED <<token, config, mainVars>>

\* a retry that presents the account's basic credentials instead of a token
Send2WithBasicAuth(p) ==
    /\ call[p].pc = "send2"
    /\ LET c == [call[p] EXCEPT !.sent = Append(@, call[p].req),
                                !.wire = Append(@, HttpCall("api", BasicAuth))]
       IN \/ call' = [call EXCEPT ![p] = Returned(c, TransportError)]
          \/ \E s \in HttpStatuses :
               call' = [call EXCEPT ![p] =
                  IF ~IsSuccess(s)
                    THEN [c EXCEPT !.pc = "body", !.second = s, !.tok = None, !.tokFrom = "-"]
                    ELSE Returned([c EXCEPT !.second = s], OkResult(s, 2))]
    /\ UNCHANGED <<token, config, mainVars>>

\* the retry: the same request with the token authenticate() just returned
Send2(p) ==
    /\ call[p].pc = "send2"
    /\ LET c == [call[p] EXCEPT !.sent = Append(@, call[p].req),
                                !.wire = Append(@, HttpCall("api", BearerAuth(call[p].tokFrom)))]
       IN \/ call' = [call EXCEPT ![p] = Returned(c, TransportError)]
          \/ \E s \in HttpStatuses :
               call' = [call EXCEPT ![p] =
                  IF ~IsSuccess(s)
                    THEN [c EXCEPT !.pc = "body", !.second = s, !.tok = None, !.tokFrom = "-"]
                    ELSE Returned([c EXCEPT !.second = s], OkResult(s, 2))]
    /\ UNCHANGED <<token, config, mainVars>>

\* an error path that reauthenticates and retries after any failed first
\* response
ReadBodyRetrying(p) ==
    /\ call[p].pc = "body"
    /\ call' = [call EXCEPT ![p] =
                  IF call[p].reauths = 0
                    THEN [@ EXCEPT !.pc = "reauthenticate"]
                    ELSE Returned(@, StatusError(call[p].first, Len(call[p].sent)))]
    /\ UNCHANGED <<token, config, mainVars>>

\* response.text().await? of a non-success response, then the error is built
\* from `status`, which both branches take from the first response
ReadBody(p) ==
    /\ call[p].pc = "body"
    /\ \/ call' = [call EXCEPT ![p] =
                     Returned(call[p], StatusError(call[p].first, Len(call[p].sent)))]
       \/ call' = [call EXCEPT ![p] = Returned(call[p], TransportError)]
    /\ UNCHANGED <<token, config, mainVars>>

\* a caller that drops the cached token when its call has failed
ReturnForgetting(p) ==
    /\ call[p].pc = "done"
    /\ call' = [call EXCEPT ![p] = IdleCall]
    /\ token' = IF call[p].ret.kind = "Ok" THEN token ELSE None
    /\ UNCHANGED <<config, mainVars>>

\* the caller takes the result; it may call request() again later
Return(p) ==
    /\ call[p].pc = "done"
    /\ call' = [call EXCEPT ![p] = IdleCall]
    /\ UNCHANGED <<token, config, mainVars>>

\* anyhow!("OpenSearch URL not configured")
ConfigError == [kind |-> "ConfigError", status |-> 0, body |-> 0]
\* anyhow!("OpenSearch query failed: {}", error_text)
SearchError(n) == [kind |-> "SearchError", status |-> 0, body |-> n]

\* the query get_vulnerabilities posts to the search endpoint
SearchRequest == [method |-> "POST", body |-> Some("query")]

\* the POST get_logs and get_vulnerabilities build: basic credentials when
\* both are configured
SearchCall == HttpCall("search", IF config.os_credentials THEN BasicAuth ELSE NoAuth)

\* a caller that has posted the query `req` for the arguments `args`
SearchPosted(req, args) ==
    [IdleCall EXCEPT !.args = args, !.req = req, !.sent = <<req>>,
                     !.wire = <<SearchCall>>]

\* that caller once the response is there: response.status() is `s`
SearchAnswered(req, args, s) == [SearchPosted(req, args) EXCEPT !.first = s]

\* a get_vulnerabilities that posts its query before it looks for os_url
GetVulnerabilitiesPostingFirst(p) ==
    /\ call[p].pc = "idle"
    /\ \/ call' = [call EXCEPT ![p] =
                     Returned(SearchPosted(SearchRequest, None), TransportError)]
       \/ \E s \in HttpStatuses :
             call' = [call EXCEPT ![p] =
                Returned(SearchPosted(SearchRequest, None),
                         IF ~config.os_url THEN ConfigError
                         ELSE IF IsSuccess(s) THEN OkResult(s, 1) ELSE SearchError(1))]
    /\ UNCHANGED <<token, config, mainVars>>

\* Option::unwrap_or_default on an Option<String>
UnwrapOrDefault(opt) == IF opt = None THEN "" ELSE opt[1]

\* a conversion that drops a package of which the name is not known
VulnerabilityItemNamedPackagesOnly(src) ==
    LET named == src.package # None /\ src.package[1].name # None
    IN [ cve      |-> src.vulnerability.id,
         severity |-> IF src.vulnerability.severity = None
                        THEN "-" ELSE src.vulnerability.severity[1],
         status   |-> None,
         title    |-> src.vulnerability.description,
         package  |-> IF named
                        THEN Some([ name |-> src.package[1].name[1],
                                    version |-> UnwrapOrDefault(src.package[1].version),
                                    architecture |-> None ])
                        ELSE None,
         name     |-> IF named THEN src.package[1].name ELSE None,
         version  |-> IF named THEN src.package[1].version ELSE None ]

\* the WazuhVulnerabilityItem the closure of get_vulnerabilities builds from
\* `src`, the _source of one hit
VulnerabilityItem(src) ==
    LET pkg == src.package
    IN [ cve      |-> src.vulnerability.id,
         severity |-> IF src.vulnerability.severity = None
                        THEN "-" ELSE src.vulnerability.severity[1],
         status   |-> None,
         title    |-> src.vulnerability.description,
         package  |-> IF pkg = None THEN None
                      ELSE Some([ name |-> UnwrapOrDefault(pkg[1].name),
                                  version |-> UnwrapOrDefault(pkg[1].version),
                                  architecture |-> None ]),
         name     |-> IF pkg = None THEN None ELSE pkg[1].name,
         version  |-> IF pkg = None THEN None ELSE pkg[1].version ]

\* the WazuhVulnerabilitiesResponse built from the parsed OSVulnerabilityResponse
VulnerabilitiesResponse(os_response) ==
    [ data |->
        [ affected_items |->
            [i \in 1..Len(os_response.hits.hits) |->
                VulnerabilityItem(os_response.hits.hits[i]._source)],
          total_affected_items |-> os_response.hits.total.value ] ]

\* Ok(WazuhVulnerabilitiesResponse { .. })
VulnerabilitiesResult(s, os_response) ==
    [kind |-> "Ok", status |-> s, body |-> VulnerabilitiesResponse(os_response)]

\* get_vulnerabilities when the search endpoint may answer a success status
\* with any body of `bodies`: without os_url an error before the query is
\* built; otherwise one POST, an error on a non-success status, an error when
\* the body is not an OSVulnerabilityResponse, and else the converted response
GetVulnerabilitiesOf(p, bodies) ==
    /\ call[p].pc = "idle"
    /\ IF ~config.os_url
         THEN call' = [call EXCEPT ![p] = Returned(IdleCall, ConfigError)]
         ELSE \/ call' = [call EXCEPT ![p] =
                            Returned(SearchPosted(SearchRequest, None), TransportError)]
              \/ \E s \in HttpStatuses :
                    /\ ~IsSuccess(s)
                    /\ call' = [call EXCEPT ![p] =
                          Returned(SearchAnswered(SearchRequest, None, s), SearchError(1))]
              \/ \E s \in HttpStatuses :
                    /\ IsSuccess(s)
                    /\ call' = [call EXCEPT ![p] =
                          Returned(SearchAnswered(SearchRequest, None, s), TransportError)]
              \/ \E s \in HttpStatuses, os_response \in bodies :
                    /\ IsSuccess(s)
                    /\ call' = [call EXCEPT ![p] =
                          Returned([SearchAnswered(SearchRequest, None, s)
                                       EXCEPT !.response = Some(os_response)],
                                   VulnerabilitiesResult(s, os_response))]
    /\ UNCHANGED <<token, config, mainVars>>

\* a search response without hits
NoHits == [hits |-> [total |-> [value |-> 0], hits |-> <<>>]]

\* get_vulnerabilities, of which the whole API layer follows the calls it
\* makes and not the body it converts
GetVulnerabilities(p) == GetVulnerabilitiesOf(p, {NoHits})

\* models::AgentSummary
AgentSummary(total, active, disconnected, never_connected) ==
    [ total |-> total, active |-> active, disconnected |-> disconnected,
      never_connected |-> never_connected ]

\* a count that puts every status it does not know into disconnected
RECURSIVE CountAgentsLumping(_, _)
CountAgentsLumping(agents, summary) ==
    IF agents = <<>> THEN summary
    ELSE CountAgentsLumping(Tail(agents),
            CASE Head(agents).status = "active" ->
                    [summary EXCEPT !.active = @ + 1]
              [] Head(agents).status = "never_connected" ->
                    [summary EXCEPT !.never_connected = @ + 1]
              [] OTHER -> [summary EXCEPT !.disconnected = @ + 1])

\* for agent in agents { match agent.status.as_str() { .. } }
RECURSIVE CountAgents(_, _)
CountAgents(agents, summary) ==
    IF agents = <<>> THEN summary
    ELSE CountAgents(Tail(agents),
            CASE Head(agents).status = "active" ->
                    [summary EXCEPT !.active = @ + 1]
              [] Head(agents).status = "disconnected" ->
                    [summary EXCEPT !.disconnected = @ + 1]
              [] Head(agents).status = "never_connected" ->
                    [summary EXCEPT !.never_connected = @ + 1]
              [] OTHER -> summary)

\* Ok(summary)
SummaryResult(summary) == [kind |-> "Summary", status |-> 0, body |-> summary]

\* get_summary once its list_agents has the response of request(): the body
\* is parsed, which can fail, and the agents of the page are counted.  An
\* error of request() is returned as it is.
GetSummary(p, data) ==
    /\ call[p].pc = "done"
    /\ call[p].ret.kind = "Ok"
    /\ \/ call' = [call EXCEPT ![p].ret = TransportError]
       \/ call' = [call EXCEPT
             ![p].response = Some(data),
             ![p].ret = SummaryResult(
                 CountAgents(data.affected_items,
                             AgentSummary(data.total_affected_items, 0, 0, 0)))]
    /\ UNCHANGED <<token, config, mainVars>>

NextGateway ==
    \E p \in Callers :
        \/ Request(p)
        \/ GetToken(p)
        \/ Authenticate(p)
        \/ StoreToken(p)
        \/ Reauthenticate(p)
        \/ RestoreToken(p)
        \/ Send1(p)
        \/ Send2(p)
        \/ ReadBody(p)
        \/ Return(p)

(***************************************************************************)
(* Application State and the DataUpdate messages.                          *)
(*                                                                         *)
(* A response body is identified by a number n: the n-th backend answer.   *)
(* A Vec fetched from the backend is the one-element list <<n>>, a struct  *)
(* is n itself, and an agent list is AgentListOf(n).  Of an agent the      *)
(* model keeps its id and its name, and of the sort columns Id and Name.   *)
(***************************************************************************)

\* enum DataUpdate
Variants ==
    { "Agents", "Groups", "GroupAgents", "SecurityEvents", "VulnSummary",
      "ThreatStats", "AgentHardware", "AgentProcesses", "AgentPrograms",
      "AgentVulnerabilities", "AgentLogs", "AgentConfig", "AlertHistory",
      "TopAgents", "Notification", "Error", "ErrorPopup" }

\* a DataUpdate on the channel; `task` and `op` say which spawned operation
\* sent it and for which of its domain operations (0 and "-" when unknown)
Msg(v, n, t, o) == [variant |-> v, payload |-> n, task |-> t, op |-> o]

\* the Vec<WazuhAgent> of the n-th answer of list_agents: two agents the
\* backend lists by descending id and ascending name
AgentListOf(n) ==
    << [id |-> 2 * n + 2, name |-> 1], [id |-> 2 * n + 1, name |-> 2] >>

\* the closure of sort_agents: Ordering of a against b, as -1, 0 or 1
CompareAgents(a, b, column, order) ==
    LET ka == IF column = "Id" THEN a.id ELSE a.name
        kb == IF column = "Id" THEN b.id ELSE b.name
        res == IF ka < kb THEN -1 ELSE IF ka > kb THEN 1 ELSE 0
    IN  IF order = "Desc" THEN -res ELSE res

\* Vec::sort_by is stable: x goes behind every element that is not greater
RECURSIVE InsertAgent(_, _, _, _)
InsertAgent(x, sorted, column, order) ==
    IF sorted = <<>> THEN <<x>>
    ELSE IF CompareAgents(Head(sorted), x, column, order) <= 0
      THEN <<Head(sorted)>> \o InsertAgent(x, Tail(sorted), column, order)
      ELSE <<x>> \o sorted

RECURSIVE SortAgents(_, _, _)
SortAgents(list, column, order) ==
    IF list = <<>> THEN <<>>
    ELSE InsertAgent(list[Len(list)],
                     SortAgents(SubSeq(list, 1, Len(list) - 1), column, order),
                     column, order)

(***************************************************************************)
(* The agent filter (src/app/filter.rs).  A String is the sequence of its  *)
(* chars, each a one-character string.                                     *)
(***************************************************************************)

\* char::to_lowercase, on ASCII
Lower(c) ==
    CASE c = "A" -> "a"
      [] c = "B" -> "b"
      [] c = "C" -> "c"
      [] c = "D" -> "d"
      [] c = "E" -> "e"
      [] c = "F" -> "f"
      [] c = "G" -> "g"
      [] c = "H" -> "h"
      [] c = "I" -> "i"
      [] c = "J" -> "j"
      [] c = "K" -> "k"
      [] c = "L" -> "l"
      [] c = "M" -> "m"
      [] c = "N" -> "n"
      [] c = "O" -> "o"
      [] c = "P" -> "p"
      [] c = "Q" -> "q"
      [] c = "R" -> "r"
      [] c = "S" -> "s"
      [] c = "T" -> "t"
      [] c = "U" -> "u"
      [] c = "V" -> "v"
      [] c = "W" -> "w"
      [] c = "X" -> "x"
      [] c = "Y" -> "y"
      [] c = "Z" -> "z"
      [] OTHER -> c

\* str::to_lowercase
ToLowercase(str) == [i \in 1..Len(str) |-> Lower(str[i])]

\* char::is_whitespace
IsWhitespace(c) == c = " "

\* str::split_whitespace: `parts` are the tokens found so far and `cur` the
\* chars of the token being read
RECURSIVE SplitFrom(_, _, _)
SplitFrom(str, parts, cur) ==
    IF str = <<>>
      THEN IF cur = <<>> THEN parts ELSE Append(parts, cur)
      ELSE IF IsWhitespace(Head(str))
        THEN SplitFrom(Tail(str), IF cur = <<>> THEN parts ELSE Append(parts, cur), <<>>)
        ELSE SplitFrom(Tail(str), parts, Append(cur, Head(str)))

SplitWhitespace(str) == SplitFrom(str, <<>>, <<>>)

\* str::split_once(':'): Some((before, after)) of the first ':', or None
SplitOnce(part) ==
    LET colons == { i \in 1..Len(part) : part[i] = ":" }
    IN  IF colons = {} THEN None
        ELSE LET k == CHOOSE i \in colons : \A j \in colons : i <= j
             IN  Some(<<SubSeq(part, 1, k - 1), SubSeq(part, k + 1, Len(part))>>)

\* the decimal digits
Digits == {"0", "1", "2", "3", "4", "5", "6", "7", "8", "9"}

DigitValue(c) ==
    CASE c = "0" -> 0 [] c = "1" -> 1 [] c = "2" -> 2 [] c = "3" -> 3 [] c = "4" -> 4
      [] c = "5" -> 5 [] c = "6" -> 6 [] c = "7" -> 7 [] c = "8" -> 8 [] c = "9" -> 9

RECURSIVE DecimalValue(_)
DecimalValue(digits) ==
    IF digits = <<>> THEN 0
    ELSE 10 * DecimalValue(SubSeq(digits, 1, Len(digits) - 1))
           + DigitValue(digits[Len(digits)])

\* u32::MAX, in digits
U32MaxDigits == <<"4", "2", "9", "4", "9", "6", "7", "2", "9", "5">>

\* the digits without their leading zeros
RECURSIVE Significant(_)
Significant(digits) ==
    IF digits # <<>> /\ Head(digits) = "0" THEN Significant(Tail(digits)) ELSE digits

\* the number the digits spell is at most u32::MAX
FitsU32(digits) ==
    LET sig == Significant(digits)
    IN  \/ Len(sig) < Len(U32MaxDigits)
        \/ /\ Len(sig) = Len(U32MaxDigits)
           /\ \/ sig = U32MaxDigits
              \/ \E i \in 1..Len(sig) :
                    /\ SubSeq(sig, 1, i - 1) = SubSeq(U32MaxDigits, 1, i - 1)
                    /\ DigitValue(sig[i]) < DigitValue(U32MaxDigits[i])

\* str::parse::<u32>: an optional '+', then digits, and a value that fits
ParseU32(str) ==
    LET digits == IF str # <<>> /\ Head(str) = "+" THEN Tail(str) ELSE str
    IN  IF /\ digits # <<>>
           /\ \A i \in 1..Len(digits) : digits[i] \in Digits
           /\ FitsU32(digits)
          THEN Some(DecimalValue(digits))
          ELSE None

\* enum FilterPredicate
Predicate(kind, value) == [kind |-> kind, value |-> value]

\* a `sev` arm that compares the value with the level names as typed
ParseSeverityCaseSensitive(value) ==
    CASE value \in {<<"c", "r", "i", "t">>,
                    <<"c", "r", "i", "t", "i", "c", "a", "l">>} ->
            <<Predicate("Severity", 12)>>
      [] value = <<"h", "i", "g", "h">> -> <<Predicate("Severity", 8)>>
      [] value \in {<<"m", "e", "d">>, <<"m", "e", "d", "i", "u", "m">>} ->
            <<Predicate("Severity", 4)>>
      [] value = <<"l", "o", "w">> -> <<Predicate("Severity", 0)>>
      [] OTHER -> IF ParseU32(value) # None
                    THEN <<Predicate("Severity", ParseU32(value)[1])>>
                    ELSE <<>>

\* the `sev` arm of parse: the named levels, a number, or nothing
ParseSeverity(value) ==
    LET v == ToLowercase(value)
    IN  CASE v \in {<<"c", "r", "i", "t">>,
                    <<"c", "r", "i", "t", "i", "c", "a", "l">>} ->
                <<Predicate("Severity", 12)>>
          [] v = <<"h", "i", "g", "h">> -> <<Predicate("Severity", 8)>>
          [] v \in {<<"m", "e", "d">>, <<"m", "e", "d", "i", "u", "m">>} ->
                <<Predicate("Severity", 4)>>
          [] v = <<"l", "o", "w">> -> <<Predicate("Severity", 0)>>
          [] OTHER -> IF ParseU32(value) # None
                        THEN <<Predicate("Severity", ParseU32(value)[1])>>
                        ELSE <<>>

\* a parse whose keys are matched as typed, without lower-casing them
ParsePartCaseSensitive(part) ==
    IF SplitOnce(part) = None
      THEN <<Predicate("Global", ToLowercase(part))>>
      ELSE LET field == SplitOnce(part)[1][1]
               value == SplitOnce(part)[1][2]
           IN  CASE field \in {<<"n", "a", "m", "e">>, <<"n">>} ->
                       <<Predicate("Name", ToLowercase(value))>>
                 [] field = <<"i", "d">> -> <<Predicate("Id", ToLowercase(value))>>
                 [] field = <<"i", "p">> -> <<Predicate("Ip", ToLowercase(value))>>
                 [] field \in {<<"s", "t", "a", "t", "u", "s">>, <<"s", "t">>} ->
                       <<Predicate("Status", ToLowercase(value))>>
                 [] field = <<"o", "s">> -> <<Predicate("Os", ToLowercase(value))>>
                 [] field \in {<<"s", "e", "v">>, <<"s">>} -> ParseSeverity(value)
                 [] OTHER -> <<Predicate("Global", ToLowercase(part))>>

\* the body of the loop of parse: the predicates one token pushes
ParsePart(part) ==
    IF SplitOnce(part) = None
      THEN <<Predicate("Global", ToLowercase(part))>>
      ELSE LET field == ToLowercase(SplitOnce(part)[1][1])
               value == SplitOnce(part)[1][2]
           IN  CASE field \in {<<"n", "a", "m", "e">>, <<"n">>} ->
                       <<Predicate("Name", ToLowercase(value))>>
                 [] field = <<"i", "d">> -> <<Predicate("Id", ToLowercase(value))>>
                 [] field = <<"i", "p">> -> <<Predicate("Ip", ToLowercase(value))>>
                 [] field \in {<<"s", "t", "a", "t", "u", "s">>, <<"s", "t">>} ->
                       <<Predicate("Status", ToLowercase(value))>>
                 [] field = <<"o", "s">> -> <<Predicate("Os", ToLowercase(value))>>
                 [] field \in {<<"s", "e", "v">>, <<"s">>} -> ParseSeverity(value)
                 [] OTHER -> <<Predicate("Global", ToLowercase(part))>>

\* the predicates of the tokens `parts`, in order
RECURSIVE ParseParts(_)
ParseParts(parts) ==
    IF parts = <<>> THEN <<>>
    ELSE ParsePart(Head(parts)) \o ParseParts(Tail(parts))

\* AgentFilter::parse
Parse(query) ==
    [predicates |-> ParseParts(SplitWhitespace(query)), raw_query |-> query]

\* AgentFilter::default
DefaultAgentFilter == [predicates |-> <<>>, raw_query |-> <<>>]

\* str::contains: `pat` stands somewhere in `str`
Contains(str, pat) ==
    \E i \in 0..(Len(str) - Len(pat)) : SubSeq(str, i + 1, i + Len(pat)) = pat

\* the closure of matches: whether the predicate holds for the agent
PredicateHolds(pred, agent) ==
    CASE pred.kind = "Name" -> Contains(ToLowercase(agent.name), pred.value)
      [] pred.kind = "Id" -> Contains(ToLowercase(agent.id), pred.value)
      [] pred.kind = "Ip" -> agent.ip # None /\ Contains(agent.ip[1], pred.value)
      [] pred.kind = "Status" -> ToLowercase(agent.status) = pred.value
      [] pred.kind = "Os" ->
            /\ agent.os # None
            /\ agent.os[1].name # None
            /\ Contains(ToLowercase(agent.os[1].name[1]), pred.value)
      [] pred.kind = "Severity" -> TRUE
      [] pred.kind = "Global" ->
            \/ Contains(ToLowercase(agent.name), pred.value)
            \/ Contains(ToLowercase(agent.id), pred.value)
            \/ agent.ip # None /\ Contains(agent.ip[1], pred.value)

\* an all() for which a Severity predicate fails
RECURSIVE AllHoldButSeverity(_, _)
AllHoldButSeverity(preds, agent) ==
    IF preds = <<>> THEN TRUE
    ELSE IF Head(preds).kind = "Severity" \/ ~PredicateHolds(Head(preds), agent) THEN FALSE
    ELSE AllHoldButSeverity(Tail(preds), agent)

\* Iterator::all: false at the first predicate that fails
RECURSIVE AllHold(_, _)
AllHold(preds, agent) ==
    IF preds = <<>> THEN TRUE
    ELSE IF ~PredicateHolds(Head(preds), agent) THEN FALSE
    ELSE AllHold(Tail(preds), agent)

\* a matches that asks for one predicate to hold
MatchesAny(filter, agent) ==
    \/ filter.predicates = <<>>
    \/ \E i \in 1..Len(filter.predicates) : PredicateHolds(filter.predicates[i], agent)

\* AgentFilter::matches
Matches(filter, agent) ==
    IF filter.predicates = <<>> THEN TRUE
    ELSE AllHold(filter.predicates, agent)

\* ui::draw as far as draw_agent_list: the agents listed, none when another
\* view or the wizard is drawn
DrawAgentList(a) ==
    IF a.is_config_wizard_active \/ a.active_view # "AgentList" THEN <<>>
    ELSE IF a.agent_filter.raw_query # <<>>
      THEN SelectSeq(a.agents, LAMBDA agent : Matches(a.agent_filter, agent))
      ELSE a.agents

\* LogFilter::default
DefaultLogFilter ==
    [ mode |-> "Min", val1 |-> 0, val2 |-> 15, agent_filter |-> <<>>,
      rule_id_filter |-> <<>>, description_filter |-> <<>>, mitre_filter |-> <<>> ]

\* App::new
NewApp ==
    [ active_view     |-> "Dashboard",
      is_config_wizard_active |-> FALSE,
      config_step     |-> "Url",
      api             |-> FALSE,       \* whether App.api is Some
      should_quit     |-> FALSE,
      is_searching    |-> FALSE,
      search_query    |-> <<>>,
      agent_filter    |-> DefaultAgentFilter,
      sort_column     |-> "Id",
      sort_order      |-> "Asc",
      agents          |-> <<>>,
      selected_agent_index |-> 0,
      table_state     |-> Some(0),     \* TableState::selected
      log_interval_mins |-> 15,
      log_offset      |-> 0,
      log_limit       |-> 50,
      log_filter      |-> DefaultLogFilter,
      groups          |-> <<>>,
      logs            |-> <<>>,
      vuln_summary    |-> 0,
      threat_stats    |-> 0,
      hardware        |-> None,
      processes       |-> <<>>,
      programs        |-> <<>>,
      vulnerabilities |-> <<>>,
      agent_logs      |-> <<>>,
      agent_config    |-> None,
      alert_buckets   |-> <<>>,
      top_agents      |-> <<>>,
      notifications   |-> <<>>,
      error_message   |-> None,
      popup_mode      |-> [mode |-> "None", title |-> 0, message |-> 0] ]

\* PopupMode::Error { title, message }
ErrorPopupMode(n) == [mode |-> "Error", title |-> n, message |-> n]

\* one arm of the match in the drain loop
ApplyUpdate(a, m) ==
    CASE m.variant \in {"Agents", "GroupAgents"} ->
            [a EXCEPT !.agents = SortAgents(AgentListOf(m.payload),
                                            a.sort_column, a.sort_order)]
      [] m.variant = "Groups" -> [a EXCEPT !.groups = <<m.payload>>]
      [] m.variant = "SecurityEvents" -> [a EXCEPT !.logs = <<m.payload>>]
      [] m.variant = "VulnSummary" -> [a EXCEPT !.vuln_summary = m.payload]
      [] m.variant = "ThreatStats" -> [a EXCEPT !.threat_stats = m.payload]
      [] m.variant = "AgentHardware" -> [a EXCEPT !.hardware = Some(m.payload)]
      [] m.variant = "AgentProcesses" -> [a EXCEPT !.processes = <<m.payload>>]
      [] m.variant = "AgentPrograms" -> [a EXCEPT !.programs = <<m.payload>>]
      [] m.variant = "AgentVulnerabilities" ->
            [a EXCEPT !.vulnerabilities = <<m.payload>>]
      [] m.variant = "AgentLogs" -> [a EXCEPT !.agent_logs = <<m.payload>>]
      [] m.variant = "AgentConfig" -> [a EXCEPT !.agent_config = Some(m.payload)]
      [] m.variant = "AlertHistory" -> [a EXCEPT !.alert_buckets = <<m.payload>>]
      [] m.variant = "TopAgents" -> [a EXCEPT !.top_agents = <<m.payload>>]
      \* App::notify pushes
      [] m.variant = "Notification" ->
            [a EXCEPT !.notifications = Append(@, m.payload)]
      [] m.variant = "Error" -> [a EXCEPT !.error_message = Some(m.payload)]
      \* App::show_error
      [] m.variant = "ErrorPopup" -> [a EXCEPT !.popup_mode = ErrorPopupMode(m.payload)]

(***************************************************************************)
(* The selection of the agent table.  Of the three TableStates of the App  *)
(* the model keeps table_state, which the agent list and the events table  *)
(* share; the arms that move groups_table_state or inspector_table_state   *)
(* leave the App kept here as it is.                                       *)
(***************************************************************************)

Min(x, y) == IF x <= y THEN x ELSE y

\* usize::saturating_sub
SaturatingSub(x, y) == IF x >= y THEN x - y ELSE 0

\* self.selected_agent_index = i; self.table_state.select(Some(i))
SelectAgent(a, i) == [a EXCEPT !.selected_agent_index = i, !.table_state = Some(i)]

\* App::next_item
NextItem(a) ==
    CASE a.active_view \in {"Dashboard", "AgentInspector", "GroupManagement"} -> a
      [] OTHER ->
            IF a.agents # <<>>
              THEN SelectAgent(a, (a.selected_agent_index + 1) % Len(a.agents))
              ELSE a

\* App::previous_item
PreviousItem(a) ==
    CASE a.active_view \in {"Dashboard", "AgentInspector", "GroupManagement"} -> a
      [] OTHER ->
            IF a.agents # <<>>
              THEN SelectAgent(a, IF a.selected_agent_index > 0
                                    THEN a.selected_agent_index - 1
                                    ELSE Len(a.agents) - 1)
              ELSE a

\* App::scroll_down; table_state.selected() is always Some
ScrollDown(a, amount) ==
    CASE a.active_view = "AgentList" ->
            IF a.agents # <<>>
              THEN SelectAgent(a, Min(a.selected_agent_index + amount, Len(a.agents) - 1))
              ELSE a
      [] a.active_view = "SecurityEvents" ->
            IF a.logs # <<>>
              THEN [a EXCEPT !.table_state =
                       Some(Min(a.table_state[1] + amount, Len(a.logs) - 1))]
              ELSE a
      [] OTHER -> a

\* App::scroll_up
ScrollUp(a, amount) ==
    CASE a.active_view = "AgentList" ->
            IF a.agents # <<>>
              THEN SelectAgent(a, SaturatingSub(a.selected_agent_index, amount))
              ELSE a
      [] a.active_view = "SecurityEvents" ->
            [a EXCEPT !.table_state = Some(SaturatingSub(a.table_state[1], amount))]
      [] OTHER -> a

\* the rows that render_stateful_widget may draw with the highlight style
\* when the table of `rows` is rendered with a clone of table_state: the row
\* at selected(); when selected() is beyond the rows, the last row or none,
\* as the release of the widget library has it
HighlightedRows(a, rows) ==
    IF a.table_state = None \/ rows = <<>> THEN {}
    ELSE IF a.table_state[1] < Len(rows) THEN { rows[a.table_state[1] + 1] }
    ELSE { rows[Len(rows)] }

\* App::get_selected_agent: self.agents.get(self.selected_agent_index)
GetSelectedAgent(a) ==
    IF a.selected_agent_index < Len(a.agents)
      THEN Some(a.agents[a.selected_agent_index + 1])
      ELSE None

(***************************************************************************)
(* The channel and the drain loop at the top of main()'s loop.             *)
(***************************************************************************)

\* mpsc::channel(100): a send waits while this many messages are queued
ChannelCapacity == 100

\* budget: nothing left to spend
NoBudget == [spawns |-> 0, answers |-> 0, faults |-> 0, messages |-> 0, keys |-> 0]

\* a drain loop that takes the newest queued message first
DrainNewestFirst ==
    /\ mainPc = "drain"
    /\ chan # <<>>
    /\ app' = ApplyUpdate(app, chan[Len(chan)])
    /\ chan' = SubSeq(chan, 1, Len(chan) - 1)
    /\ drained' = Append(drained, chan[Len(chan)])
    /\ applied' = applied \cup {chan[Len(chan)]}
    /\ UNCHANGED <<mainPc, tasks, budget, filtered_agents, gatewayVars>>

\* a drain loop that also dismisses the error line whenever data arrives
DrainClearingError ==
    /\ mainPc = "drain"
    /\ chan # <<>>
    /\ app' = [ApplyUpdate(app, Head(chan)) EXCEPT !.error_message = None]
    /\ chan' = Tail(chan)
    /\ drained' = Append(drained, Head(chan))
    /\ applied' = applied \cup {Head(chan)}
    /\ UNCHANGED <<mainPc, tasks, budget, filtered_agents, gatewayVars>>

\* a drain loop that reads the head of the channel without taking it
DrainPeeking ==
    /\ mainPc = "drain"
    /\ chan # <<>>
    /\ Len(drained) <= Len(chan)
    /\ app' = ApplyUpdate(app, Head(chan))
    /\ drained' = Append(drained, Head(chan))
    /\ applied' = applied \cup {Head(chan)}
    /\ UNCHANGED <<chan, mainPc, tasks, budget, filtered_agents, gatewayVars>>

\* while let Ok(update) = rx.try_recv() { match update { ... } }: one turn
Drain ==
    /\ mainPc = "drain"
    /\ chan # <<>>
    /\ app' = ApplyUpdate(app, Head(chan))
    /\ chan' = Tail(chan)
    /\ drained' = Append(drained, Head(chan))
    /\ applied' = applied \cup {Head(chan)}
    /\ UNCHANGED <<mainPc, tasks, budget, filtered_agents, gatewayVars>>

\* try_recv() finds the channel empty: the loop ends, the frame is drawn
EndDrain ==
    /\ mainPc = "drain"
    /\ chan = <<>>
    /\ mainPc' = "input"
    /\ drained' = <<>>
    /\ filtered_agents' = DrawAgentList(app)
    /\ UNCHANGED <<app, chan, applied, tasks, budget, gatewayVars>>

\* App::clear_old_notifications, when the tick is due: the notifications
\* older than five seconds are the first k of the list, for some k
Ticked(a) ==
    { [a EXCEPT !.notifications = SubSeq(@, k + 1, Len(@))] :
        k \in 0..Len(a.notifications) }

\* the end of an iteration whose key handler left the App as `a`: the tick,
\* the test of should_quit, and the start of the next iteration
NextIteration(a) ==
    /\ app' \in Ticked(a)
    /\ mainPc' = IF a.should_quit THEN "quit" ELSE "drain"
    /\ filtered_agents' = <<>>
    /\ UNCHANGED drained

\* event::poll times out, or the key read has no effect on the state kept here
NoKey ==
    /\ mainPc = "input"
    /\ NextIteration(app)
    /\ UNCHANGED <<chan, applied, tasks, budget, gatewayVars>>

\* the text-field input of the search bar
InSearchBar ==
    /\ mainPc = "input"
    /\ ~app.is_config_wizard_active
    /\ app.popup_mode.mode = "None"
    /\ app.is_searching
    /\ budget.keys > 0

\* a char typed into the search bar: it is pushed and the query parsed again
KeySearchChar(c) ==
    /\ InSearchBar
    /\ LET query == Append(app.search_query, c)
       IN  NextIteration([app EXCEPT !.search_query = query,
                                     !.agent_filter = Parse(query)])
    /\ budget' = [budget EXCEPT !.keys = @ - 1]
    /\ UNCHANGED <<chan, applied, tasks, gatewayVars>>

\* Backspace in the search bar: String::pop, and the query parsed again
KeySearchBackspace ==
    /\ InSearchBar
    /\ LET query == SubSeq(app.search_query, 1, Len(app.search_query) - 1)
       IN  NextIteration([app EXCEPT !.search_query = query,
                                     !.agent_filter = Parse(query)])
    /\ budget' = [budget EXCEPT !.keys = @ - 1]
    /\ UNCHANGED <<chan, applied, tasks, gatewayVars>>

(***************************************************************************)
(* The reducer alone: any sequence of messages, sent at any time.  The     *)
(* sort settings are inputs of the reducer and are drawn from the values   *)
(* App::cycle_sort can leave behind.                                       *)
(***************************************************************************)

\* messages the spawned operations send in one run of the reducer
MaxMessages == 2

SortColumns == {"Id", "Name"}
SortOrders == {"Asc", "Desc"}

\* tx.send(update).await of some spawned operation, whichever it is; the
\* payload is the number of the message
Produce ==
    /\ budget.messages > 0
    /\ Len(chan) < ChannelCapacity
    /\ \E v \in Variants :
         chan' = Append(chan, Msg(v, Cardinality(applied) + Len(chan) + 1, 0, "-"))
    /\ budget' = [budget EXCEPT !.messages = @ - 1]
    /\ UNCHANGED <<app, mainPc, drained, applied, tasks, filtered_agents, gatewayVars>>

InitReducer ==
    /\ InitCell
    /\ \E c \in SortColumns, o \in SortOrders :
         app = [NewApp EXCEPT !.sort_column = c, !.sort_order = o]
    /\ chan = <<>>
    /\ mainPc = "drain"
    /\ drained = <<>>
    /\ applied = {}
    /\ tasks = <<>>
    /\ filtered_agents = <<>>
    /\ budget = [NoBudget EXCEPT !.messages = MaxMessages]

NextReducer ==
    \/ Produce
    \/ Drain
    \/ EndDrain
    \/ NoKey

SpecReducer == InitReducer /\ [][NextReducer]_vars

(***************************************************************************)
(* The operations main() spawns.  A spawned operation is a straight-line   *)
(* program of steps; a step awaits one domain operation of the gateway and *)
(* sends what the code sends for its outcome.  Every message of a spawned  *)
(* operation carries the number of the operation as its payload.           *)
(***************************************************************************)

\* a step: the domain operation, the variants sent when it succeeds, whether
\* it can succeed with nothing to send (no "hits" array, no first item), and
\* the variant sent when it fails ("-": none, the error is discarded)
Step(op, ok, empty, err) == [op |-> op, ok |-> ok, empty |-> empty, err |-> err]

\* the get_logs call whose hits are summed up for the dashboard
StatsStep ==
    Step("get_logs", <<"ThreatStats", "AlertHistory", "TopAgents">>, TRUE, "-")

\* the send of Notification("Data refreshed") that ends a refresh: no
\* domain operation
NotifyStep == Step("-", <<"Notification">>, FALSE, "-")

\* an inspector load that fetches the programs before the processes; `err`
\* is the variant the vulnerabilities and config arms send on failure
InspectorStepsSwapped(err) ==
    << Step("get_hardware_info", <<"AgentHardware">>, TRUE, "-"),
       Step("get_programs", <<"AgentPrograms">>, FALSE, "-"),
       Step("get_processes", <<"AgentProcesses">>, FALSE, "-"),
       Step("get_vulnerabilities", <<"AgentVulnerabilities">>, FALSE, err),
       Step("get_logs", <<"AgentLogs">>, TRUE, "-"),
       Step("get_agent_config", <<"AgentConfig">>, FALSE, err) >>

\* the six fetches of an agent-inspector load; `err` is the variant the
\* vulnerabilities and config arms send on failure
InspectorSteps(err) ==
    << Step("get_hardware_info", <<"AgentHardware">>, TRUE, "-"),
       Step("get_processes", <<"AgentProcesses">>, FALSE, "-"),
       Step("get_programs", <<"AgentPrograms">>, FALSE, "-"),
       Step("get_vulnerabilities", <<"AgentVulnerabilities">>, FALSE, err),
       Step("get_logs", <<"AgentLogs">>, TRUE, "-"),
       Step("get_agent_config", <<"AgentConfig">>, FALSE, err) >>

\* the body of each async block handed to tokio::spawn
Program(kind) ==
    CASE kind = "initial" ->
            << Step("list_agents", <<"Agents">>, FALSE, "-"), StatsStep >>
      [] kind = "refresh_main" ->
            << Step("list_agents", <<"Agents">>, FALSE, "-"),
               Step("get_groups", <<"Groups">>, FALSE, "-"),
               StatsStep,
               NotifyStep >>
      [] kind = "refresh_inspector" ->
            InspectorSteps("ErrorPopup") \o <<NotifyStep>>
      [] kind = "refresh_unselected" -> <<NotifyStep>>
      [] kind = "refresh_events" ->
            << Step("get_logs", <<"SecurityEvents">>, TRUE, "-"), NotifyStep >>
      [] kind = "page" ->
            << Step("get_logs", <<"SecurityEvents">>, TRUE, "-") >>
      [] kind = "tab_events" ->
            << Step("get_logs", <<"SecurityEvents">>, TRUE, "Error") >>
      [] kind = "tab_main" ->
            << Step("list_agents", <<"Agents">>, FALSE, "Error"),
               Step("get_groups", <<"Groups">>, FALSE, "Error") >>
      [] kind = "inspect" -> InspectorSteps("Error")

\* a spawned operation: its program, the steps it has completed, the
\* messages of the current step it has still to send, the domain operations
\* of it that failed, and, of an operation that fetches the security events,
\* the arguments of get_logs its async block has captured
NewTask(kind) ==
    [kind |-> kind, pc |-> 0, outbox |-> <<>>, failed |-> {}, args |-> None]

\* the main task has returned or panicked: the runtime is shut down
Stopped == mainPc \in {"quit", "panicked"}

\* the step the operation t awaits
NextStepOf(t) == Program(tasks[t].kind)[tasks[t].pc + 1]

AtStep(t) ==
    /\ ~Stopped
    /\ tasks[t].outbox = <<>>
    /\ tasks[t].pc < Len(Program(tasks[t].kind))

AtDomainStep(t) ==
    /\ AtStep(t)
    /\ NextStepOf(t).op # "-"
    /\ budget.answers > 0

\* the messages of step s of operation t
MessagesOf(t, s) == [i \in 1..Len(s.ok) |-> Msg(s.ok[i], t, t, s.op)]

\* the domain operation succeeds: the first message of the step is sent
TaskOk(t) ==
    /\ AtDomainStep(t)
    /\ Len(chan) < ChannelCapacity
    /\ LET ms == MessagesOf(t, NextStepOf(t))
       IN  /\ chan' = Append(chan, Head(ms))
           /\ tasks' = [tasks EXCEPT ![t].pc = @ + 1, ![t].outbox = Tail(ms)]
    /\ budget' = [budget EXCEPT !.answers = @ - 1]
    /\ UNCHANGED <<app, mainPc, drained, applied, filtered_agents, gatewayVars>>

\* the domain operation succeeds with nothing in it to send
TaskEmpty(t) ==
    /\ AtDomainStep(t)
    /\ NextStepOf(t).empty
    /\ budget.faults > 0
    /\ tasks' = [tasks EXCEPT ![t].pc = @ + 1]
    /\ budget' = [budget EXCEPT !.answers = @ - 1, !.faults = @ - 1]
    /\ UNCHANGED <<app, chan, mainPc, drained, applied, filtered_agents, gatewayVars>>

\* the domain operation fails: the Err arm, where there is one, sends
TaskErr(t) ==
    /\ AtDomainStep(t)
    /\ budget.faults > 0
    /\ LET s == NextStepOf(t)
       IN  /\ IF s.err = "-"
                THEN chan' = chan
                ELSE /\ Len(chan) < ChannelCapacity
                     /\ chan' = Append(chan, Msg(s.err, t, t, s.op))
           /\ tasks' = [tasks EXCEPT ![t].pc = @ + 1,
                                     ![t].failed = @ \cup {s.op}]
    /\ budget' = [budget EXCEPT !.answers = @ - 1, !.faults = @ - 1]
    /\ UNCHANGED <<app, mainPc, drained, applied, filtered_agents, gatewayVars>>

\* a later tx.send(..).await of a step that sends several messages
TaskSend(t) ==
    /\ ~Stopped
    /\ tasks[t].outbox # <<>>
    /\ Len(chan) < ChannelCapacity
    /\ chan' = Append(chan, Head(tasks[t].outbox))
    /\ tasks' = [tasks EXCEPT ![t].outbox = Tail(@)]
    /\ UNCHANGED <<app, mainPc, drained, applied, budget, filtered_agents, gatewayVars>>

\* the closing tx.send(Notification("Data refreshed", Success)).await
TaskNotify(t) ==
    /\ AtStep(t)
    /\ NextStepOf(t).op = "-"
    /\ Len(chan) < ChannelCapacity
    /\ chan' = Append(chan, Head(MessagesOf(t, NextStepOf(t))))
    /\ tasks' = [tasks EXCEPT ![t].pc = @ + 1]
    /\ UNCHANGED <<app, mainPc, drained, applied, budget, filtered_agents, gatewayVars>>

(***************************************************************************)
(* The key handlers of main()'s loop.  Of the App they read and write the  *)
(* fields kept in `app`; search, the interval popup, the log detail view   *)
(* and the table selections stay as App::new leaves them.                  *)
(***************************************************************************)

\* tokio::spawn(async move { ... }) of the operation `kind`
Spawn(kind) ==
    /\ budget.spawns > 0
    /\ tasks' = Append(tasks, NewTask(kind))
    /\ budget' = [budget EXCEPT !.spawns = @ - 1]

\* tokio::spawn of an operation that fetches the security events with
\* get_logs(None, interval, offset, limit, filter): the arguments are
\* evaluated by the handler and moved into the async block
SpawnGetLogs(kind, interval, offset, limit, filter) ==
    /\ budget.spawns > 0
    /\ tasks' = Append(tasks,
          [NewTask(kind) EXCEPT !.args =
              Some([agent_id |-> None, minutes |-> interval, offset |-> offset,
                    limit |-> limit, filter |-> filter])])
    /\ budget' = [budget EXCEPT !.spawns = @ - 1]

\* the operations of 'r' and of Tab: in the events view they call
\* get_logs(None, interval, 0, 50, None)
SpawnFor(kind, a) ==
    IF kind \in {"refresh_events", "tab_events"}
      THEN SpawnGetLogs(kind, a.log_interval_mins, 0, 50, None)
      ELSE Spawn(kind)

\* the guard of the KeyCode::Char(c) arm
CharKeysHandled ==
    /\ ~app.is_config_wizard_active
    /\ ~app.is_searching
    /\ app.popup_mode.mode = "None"

\* whether App::get_selected_agent returns an agent
HasSelectedAgent(a) == GetSelectedAgent(a) # None

\* the match on active_view inside the operation 'r' spawns
RefreshKind(a) ==
    CASE a.active_view \in {"Dashboard", "AgentList", "GroupManagement"} ->
            "refresh_main"
      [] a.active_view = "AgentInspector" ->
            IF HasSelectedAgent(a) THEN "refresh_inspector" ELSE "refresh_unselected"
      [] a.active_view = "SecurityEvents" -> "refresh_events"

\* 'r'
KeyRefresh ==
    /\ mainPc = "input"
    /\ CharKeysHandled
    /\ IF app.api
         THEN SpawnFor(RefreshKind(app), app)
         ELSE UNCHANGED <<tasks, budget>>
    /\ NextIteration(app)
    /\ UNCHANGED <<chan, applied, gatewayVars>>

\* 'q'
KeyQuit ==
    /\ mainPc = "input"
    /\ CharKeysHandled
    /\ NextIteration(IF app.active_view = "AgentInspector"
                       THEN [app EXCEPT !.active_view = "AgentList"]
                       ELSE [app EXCEPT !.should_quit = TRUE])
    /\ UNCHANGED <<chan, applied, tasks, budget, gatewayVars>>

\* '/': the search bar opens with an empty query; agent_filter is not
\* parsed again until a char is typed
KeySlash ==
    /\ mainPc = "input"
    /\ CharKeysHandled
    /\ NextIteration([app EXCEPT !.is_searching = TRUE, !.search_query = <<>>])
    /\ UNCHANGED <<chan, applied, tasks, budget, gatewayVars>>

\* Esc: it leaves the search bar, else closes the popup, else leaves the
\* inspector
KeyEsc ==
    /\ mainPc = "input"
    /\ NextIteration(IF app.is_searching
                       THEN [app EXCEPT !.is_searching = FALSE]
                       ELSE IF app.popup_mode.mode # "None"
                         THEN [app EXCEPT !.popup_mode = NewApp.popup_mode]
                         ELSE IF app.active_view = "AgentInspector"
                           THEN [app EXCEPT !.active_view = "AgentList"]
                           ELSE app)
    /\ UNCHANGED <<chan, applied, tasks, budget, gatewayVars>>

\* PageDown: outside the events view it scrolls; in it, it moves log_offset
\* one page on and fetches that page with app.api.as_ref().unwrap()
KeyPageDown ==
    /\ mainPc = "input"
    /\ IF app.active_view # "SecurityEvents"
         THEN /\ NextIteration(ScrollDown(app, 15))
              /\ UNCHANGED <<tasks, budget>>
         ELSE IF ~app.api
           THEN /\ mainPc' = "panicked"
                /\ UNCHANGED <<app, drained, tasks, filtered_agents, budget>>
           ELSE LET a == [app EXCEPT !.log_offset = @ + app.log_limit]
                IN  /\ SpawnGetLogs("page", a.log_interval_mins, a.log_offset,
                                    a.log_limit, Some(a.log_filter))
                    /\ NextIteration(a)
    /\ UNCHANGED <<chan, applied, gatewayVars>>

\* PageUp: outside the events view it scrolls; in it, it moves log_offset
\* one page back, not below zero, and fetches that page
KeyPageUp ==
    /\ mainPc = "input"
    /\ IF app.active_view # "SecurityEvents"
         THEN /\ NextIteration(ScrollUp(app, 15))
              /\ UNCHANGED <<tasks, budget>>
         ELSE IF ~app.api
           THEN /\ mainPc' = "panicked"
                /\ UNCHANGED <<app, drained, tasks, filtered_agents, budget>>
           ELSE LET a == [app EXCEPT !.log_offset = SaturatingSub(@, app.log_limit)]
                IN  /\ SpawnGetLogs("page", a.log_interval_mins, a.log_offset,
                                    a.log_limit, Some(a.log_filter))
                    /\ NextIteration(a)
    /\ UNCHANGED <<chan, applied, gatewayVars>>

\* Down: in the inspector it scrolls, in the dashboard it does nothing, in
\* the other views it selects the next item.  No log detail view is open
\* and no filter or jump popup.
KeyDown ==
    /\ mainPc = "input"
    /\ NextIteration(CASE app.active_view = "AgentInspector" -> ScrollDown(app, 1)
                       [] app.active_view = "Dashboard" -> app
                       [] OTHER -> NextItem(app))
    /\ UNCHANGED <<chan, applied, tasks, budget, gatewayVars>>

\* Up
KeyUp ==
    /\ mainPc = "input"
    /\ NextIteration(CASE app.active_view = "AgentInspector" -> ScrollUp(app, 1)
                       [] app.active_view = "Dashboard" -> app
                       [] OTHER -> PreviousItem(app))
    /\ UNCHANGED <<chan, applied, tasks, budget, gatewayVars>>

\* the view Tab moves to
NextView(view) ==
    CASE view = "Dashboard" -> "AgentList"
      [] view = "AgentList" -> "SecurityEvents"
      [] view = "SecurityEvents" -> "GroupManagement"
      [] view = "GroupManagement" -> "Dashboard"
      [] view = "AgentInspector" -> "AgentList"

\* Tab that cancels the operations of the view it leaves
KeyTabCancelling ==
    /\ mainPc = "input"
    /\ app.active_view # "AgentInspector"
    /\ tasks' = [t \in DOMAIN tasks |->
                   [tasks[t] EXCEPT !.pc = Len(Program(tasks[t].kind)),
                                    !.outbox = <<>>]]
    /\ NextIteration([app EXCEPT !.active_view = NextView(@)])
    /\ UNCHANGED <<chan, applied, budget, gatewayVars>>

\* Tab: in the inspector the next tab, elsewhere the next view and its load
KeyTab ==
    /\ mainPc = "input"
    /\ IF app.active_view = "AgentInspector"
         THEN /\ NextIteration(app)
              /\ UNCHANGED <<tasks, budget>>
         ELSE LET view == NextView(app.active_view)
              IN  IF app.api
                    THEN /\ SpawnFor(IF view = "SecurityEvents"
                                       THEN "tab_events" ELSE "tab_main", app)
                         /\ NextIteration([app EXCEPT !.active_view = view,
                                                      !.error_message = None])
                    ELSE /\ NextIteration([app EXCEPT !.active_view = view])
                         /\ UNCHANGED <<tasks, budget>>
    /\ UNCHANGED <<chan, applied, gatewayVars>>

\* the step after each step of the wizard
NextConfigStep(step) ==
    CASE step = "Url" -> "OsUrl"
      [] step = "OsUrl" -> "Username"
      [] step = "Username" -> "Password"
      [] step = "Password" -> "Confirm"

\* Enter in the wizard before its last step; the Url step advances only
\* when a URL has been typed
KeyEnterWizard ==
    /\ mainPc = "input"
    /\ app.popup_mode.mode = "None"
    /\ app.is_config_wizard_active
    /\ app.config_step # "Confirm"
    /\ \E typed \in BOOLEAN :
         NextIteration(IF app.config_step = "Url" /\ ~typed
                         THEN app
                         ELSE [app EXCEPT !.config_step = NextConfigStep(@)])
    /\ UNCHANGED <<chan, applied, tasks, budget, gatewayVars>>

\* Enter on the Confirm step: when the configuration is saved the handler
\* sets up the API and awaits api.list_agents(None, 0, 500) in the loop
KeyEnterConfirm ==
    /\ mainPc = "input"
    /\ app.popup_mode.mode = "None"
    /\ app.is_config_wizard_active
    /\ app.config_step = "Confirm"
    /\ \E saved \in BOOLEAN :
         IF saved
           THEN /\ app' = [app EXCEPT !.api = TRUE,
                                      !.is_config_wizard_active = FALSE,
                                      !.active_view = "Dashboard"]
                /\ mainPc' = "await_list_agents"
                /\ UNCHANGED <<drained, filtered_agents>>
           ELSE NextIteration(app)
    /\ UNCHANGED <<chan, applied, tasks, budget, gatewayVars>>

\* the payload of the answer to the request the Confirm handler makes itself
InlinePayload == 0

\* the awaited list_agents of the Confirm handler completes; on Ok the
\* handler stores the agents and sorts them
ConfirmResponse ==
    /\ mainPc = "await_list_agents"
    /\ \E ok \in BOOLEAN :
         NextIteration(IF ok
                         THEN [app EXCEPT !.agents =
                                 SortAgents(AgentListOf(InlinePayload),
                                            app.sort_column, app.sort_order)]
                         ELSE app)
    /\ UNCHANGED <<chan, applied, tasks, budget, gatewayVars>>

\* Enter in the agent list: open the inspector on the selected agent and
\* load it
KeyEnterAgent ==
    /\ mainPc = "input"
    /\ app.popup_mode.mode = "None"
    /\ ~app.is_config_wizard_active
    /\ app.active_view = "AgentList"
    /\ IF HasSelectedAgent(app)
         THEN /\ NextIteration([app EXCEPT !.active_view = "AgentInspector",
                                           !.error_message = None])
              /\ IF app.api THEN Spawn("inspect") ELSE UNCHANGED <<tasks, budget>>
         ELSE /\ NextIteration(app)
              /\ UNCHANGED <<tasks, budget>>
    /\ UNCHANGED <<chan, applied, gatewayVars>>

(***************************************************************************)
(* The update pipeline: main()'s loop and the operations it spawns.        *)
(***************************************************************************)

\* operations spawned in one run
MaxTasks == 2

\* answers the backend gives to spawned operations in one run
MaxOps == 3

\* of them, the failures and the answers with nothing to send
MaxFaults == 1

\* the text main() puts in error_message when no configuration is found
ConfigNotFound == 0

\* main() up to its loop: the configuration is found, the API is set and
\* the initial load is spawned, or it is not found and the wizard opens
InitMain(spawns, answers, faults) ==
    /\ chan = <<>>
    /\ mainPc = "drain"
    /\ drained = <<>>
    /\ applied = {}
    /\ filtered_agents = <<>>
    /\ \/ /\ app = [NewApp EXCEPT !.api = TRUE]
          /\ tasks = <<NewTask("initial")>>
          /\ budget = [NoBudget EXCEPT !.spawns = spawns - 1, !.answers = answers,
                                    !.faults = faults]
       \/ /\ app = [NewApp EXCEPT !.is_config_wizard_active = TRUE,
                                  !.error_message = Some(ConfigNotFound)]
          /\ tasks = <<>>
          /\ budget = [NoBudget EXCEPT !.spawns = spawns, !.answers = answers,
                                    !.faults = faults]

InitPipeline == InitCell /\ InitMain(MaxTasks, MaxOps, MaxFaults)

NextPipeline ==
    \/ Drain
    \/ EndDrain
    \/ NoKey
    \/ KeyRefresh
    \/ KeyQuit
    \/ KeyEsc
    \/ KeyPageDown
    \/ KeyTab
    \/ KeyEnterWizard
    \/ KeyEnterConfirm
    \/ ConfirmResponse
    \/ KeyEnterAgent
    \/ \E t \in DOMAIN tasks : TaskOk(t)
    \/ \E t \in DOMAIN tasks : TaskEmpty(t)
    \/ \E t \in DOMAIN tasks : TaskErr(t)
    \/ \E t \in DOMAIN tasks : TaskSend(t)
    \/ \E t \in DOMAIN tasks : TaskNotify(t)

SpecPipeline == InitPipeline /\ [][NextPipeline]_vars

(***************************************************************************)
(* The pipeline in the runs where the only keys pressed are Enter and Tab, *)
(* which lead from either start to a loaded agent inspector, and long      *)
(* enough for a whole inspector load.                                      *)
(***************************************************************************)

\* operations spawned in one such run
MaxInspectorTasks == 2

\* answers the backend gives to spawned operations in one such run
MaxInspectorOps == 7

\* of them, the failures and the answers with nothing to send
MaxInspectorFaults == 1

InitInspector ==
    InitCell /\ InitMain(MaxInspectorTasks, MaxInspectorOps, MaxInspectorFaults)

NextInspector ==
    \/ Drain
    \/ EndDrain
    \/ NoKey
    \/ KeyTab
    \/ KeyEnterWizard
    \/ KeyEnterConfirm
    \/ ConfirmResponse
    \/ KeyEnterAgent
    \/ \E t \in DOMAIN tasks : TaskOk(t)
    \/ \E t \in DOMAIN tasks : TaskEmpty(t)
    \/ \E t \in DOMAIN tasks : TaskErr(t)
    \/ \E t \in DOMAIN tasks : TaskSend(t)

SpecInspector == InitInspector /\ [][NextInspector]_vars

(***************************************************************************)
(* The pipeline while main()'s loop keeps iterating: a turn of the drain   *)
(* loop, its end and the poll for a key are synchronous code and complete; *)
(* the list_agents awaited by the Confirm handler completes because the    *)
(* HTTP client is built with a timeout.  Keys are the user's and the       *)
(* answers to spawned operations the backend's: neither is assumed.        *)
(***************************************************************************)

\* operations spawned in one such run
MaxLiveTasks == 1

\* answers the backend gives to spawned operations in one such run
MaxLiveOps == 3

\* of them, the failures and the answers with nothing to send
MaxLiveFaults == 1

InitPipelineLive == InitCell /\ InitMain(MaxLiveTasks, MaxLiveOps, MaxLiveFaults)

SpecPipelineLive ==
    /\ InitPipelineLive
    /\ [][NextPipeline]_vars
    /\ WF_vars(Drain)
    /\ WF_vars(EndDrain)
    /\ WF_vars(NoKey)
    /\ WF_vars(ConfirmResponse)

(***************************************************************************)
(* The search bar: a query has been typed and parsed, and the user edits   *)
(* it.  The queries typed so far are built from tokens that take every arm *)
(* of parse, with keys and values in mixed case.                           *)
(***************************************************************************)

\* tokens in the query typed so far
MaxQueryTokens == 2

\* keys pressed in the search bar in one run
MaxQueryKeys == 1

\* the keys of the field predicates, as typed, and a key parse does not know
TypedKeys ==
    { <<"n">>, <<"N", "a", "m", "e">>, <<"i", "d">>, <<"I", "P">>, <<"s", "t">>,
      <<"S", "t", "a", "t", "u", "s">>, <<"O", "s">>, <<"z">> }

\* values, as typed; one holds a second ':'
TypedValues == { <<"W", "b">>, <<"a", ":", "B">> }

\* the tokens: key:value, two severity tokens, and a word without ':'
TypedTokens ==
    { k \o <<":">> \o v : k \in TypedKeys, v \in TypedValues }
       \cup { <<"s", ":", "7">>, <<"S", "e", "v", ":", "W", "b">>, <<"W", "b">> }

\* the tokens joined by single spaces
RECURSIVE JoinTokens(_)
JoinTokens(tokens) ==
    IF tokens = <<>> THEN <<>>
    ELSE IF Len(tokens) = 1 THEN tokens[1]
    ELSE tokens[1] \o <<" ">> \o JoinTokens(Tail(tokens))

TypedQueries ==
    UNION { { JoinTokens(ts) : ts \in [1..n -> TypedTokens] } : n \in 0..MaxQueryTokens }

\* the chars typed next
TypedChars == {"x", ":", " "}

InitFilter ==
    /\ InitCell
    /\ \E q \in TypedQueries :
         app = [NewApp EXCEPT !.api = TRUE, !.is_searching = TRUE,
                              !.search_query = q, !.agent_filter = Parse(q)]
    /\ chan = <<>>
    /\ mainPc = "drain"
    /\ drained = <<>>
    /\ applied = {}
    /\ tasks = <<>>
    /\ filtered_agents = <<>>
    /\ budget = [NoBudget EXCEPT !.keys = MaxQueryKeys]

NextFilter ==
    \/ \E c \in TypedChars : KeySearchChar(c)
    \/ KeySearchBackspace
    \/ EndDrain

SpecFilter == InitFilter /\ [][NextFilter]_vars

(***************************************************************************)
(* The search bar holding one severity token that the user edits.          *)
(***************************************************************************)

\* keys pressed in the search bar in one run
MaxSeverityKeys == 2

\* the severity keys, as typed
SeverityKeys == { <<"s">>, <<"S", "e", "v">> }

\* severity values, as typed: level names and their short forms in mixed
\* case, numbers with a sign, with a leading zero and beyond u32::MAX, and
\* values that are neither
SeverityValues ==
    { <<"c", "r", "i", "t", "i", "c", "a", "l">>, <<"C", "R", "I", "T">>,
      <<"H", "i", "g", "h">>, <<"m", "e", "d", "i", "u", "m">>, <<"M", "e", "d">>,
      <<"l", "o", "w">>, <<"7">>, <<"+", "7">>, <<"0", "1", "5">>, <<"-", "1">>,
      <<"9", "9", "9", "9", "9", "9", "9", "9", "9", "9", "9">>,
      <<"b", "o", "g", "u", "s">>, <<>> }

SeverityQueries == { k \o <<":">> \o v : k \in SeverityKeys, v \in SeverityValues }

\* the chars typed next
SeverityChars == {"0", "x"}

InitSeverity ==
    /\ InitCell
    /\ \E q \in SeverityQueries :
         app = [NewApp EXCEPT !.api = TRUE, !.is_searching = TRUE,
                              !.search_query = q, !.agent_filter = Parse(q)]
    /\ chan = <<>>
    /\ mainPc = "drain"
    /\ drained = <<>>
    /\ applied = {}
    /\ tasks = <<>>
    /\ filtered_agents = <<>>
    /\ budget = [NoBudget EXCEPT !.keys = MaxSeverityKeys]

NextSeverity ==
    \/ \E c \in SeverityChars : KeySearchChar(c)
    \/ KeySearchBackspace
    \/ EndDrain

SpecSeverity == InitSeverity /\ [][NextSeverity]_vars

(***************************************************************************)
(* The agent list drawn with a filter: one agent is listed and the query   *)
(* in the search bar has been parsed.                                      *)
(***************************************************************************)

\* tokens in the query
MaxMatchTokens == 2

\* keys pressed in the search bar in one run
MaxMatchKeys == 1

\* the agents: names, ids and addresses with and without the letter the
\* queries look for, in both cases; no address, no os, an os without name
MatchAgents ==
    [ id     : { <<"1">>, <<"a", "1">> },
      name   : { <<"W", "a">>, <<"d">> },
      ip     : { None, Some(<<"F", "a">>), Some(<<"1">>) },
      status : { <<"A", "c", "t", "i", "v", "e">>, <<"d", "o", "w", "n">> },
      os     : { None, Some([name |-> None]),
                 Some([name |-> Some(<<"A", "r", "c", "h">>)]) } ]

\* the tokens: one per kind of predicate, a status that is only part of
\* the agent's, a key parse does not know
MatchTokens ==
    { <<"n", ":", "a">>, <<"i", "d", ":", "a">>, <<"i", "p", ":", "a">>,
      <<"i", "p", ":", "F", "A">>, <<"s", "t", ":", "A", "c", "t", "i", "v", "e">>,
      <<"s", "t", ":", "a">>, <<"o", "s", ":", "a">>, <<"a">>, <<"F", "A">>,
      <<"z", ":", "a">>, <<"s", ":", "7">> }

MatchQueries ==
    UNION { { JoinTokens(ts) : ts \in [1..n -> MatchTokens] } : n \in 0..MaxMatchTokens }

InitMatch ==
    /\ InitCell
    /\ \E q \in MatchQueries, agent \in MatchAgents :
         app = [NewApp EXCEPT !.api = TRUE, !.active_view = "AgentList",
                              !.agents = <<agent>>, !.is_searching = TRUE,
                              !.search_query = q, !.agent_filter = Parse(q)]
    /\ chan = <<>>
    /\ mainPc = "drain"
    /\ drained = <<>>
    /\ applied = {}
    /\ tasks = <<>>
    /\ filtered_agents = <<>>
    /\ budget = [NoBudget EXCEPT !.keys = MaxMatchKeys]

NextMatch ==
    \/ EndDrain
    \/ NoKey
    \/ KeySearchBackspace

SpecMatch == InitMatch /\ [][NextMatch]_vars

(***************************************************************************)
(* Properties of the reducer.                                              *)
(***************************************************************************)

\* the field of App a DataUpdate variant addresses
SliceOf(v) ==
    CASE v \in {"Agents", "GroupAgents"} -> "agents"
      [] v = "Groups" -> "groups"
      [] v = "SecurityEvents" -> "logs"
      [] v = "VulnSummary" -> "vuln_summary"
      [] v = "ThreatStats" -> "threat_stats"
      [] v = "AgentHardware" -> "hardware"
      [] v = "AgentProcesses" -> "processes"
      [] v = "AgentPrograms" -> "programs"
      [] v = "AgentVulnerabilities" -> "vulnerabilities"
      [] v = "AgentLogs" -> "agent_logs"
      [] v = "AgentConfig" -> "agent_config"
      [] v = "AlertHistory" -> "alert_buckets"
      [] v = "TopAgents" -> "top_agents"
      [] v = "Notification" -> "notifications"
      [] v = "Error" -> "error_message"
      [] v = "ErrorPopup" -> "popup_mode"

Slices == { SliceOf(v) : v \in Variants }

\* what a slice other than `agents` is when it is exactly the payload of m
PayloadAsSlice(m) ==
    CASE m.variant \in {"VulnSummary", "ThreatStats"} -> m.payload
      [] m.variant \in {"AgentHardware", "AgentConfig", "Error"} -> Some(m.payload)
      [] m.variant = "ErrorPopup" -> ErrorPopupMode(m.payload)
      [] OTHER -> <<m.payload>>

\* the agents of `list` are those of `payload`, in the order of the sort setting
IsPayloadInSortOrder(list, payload, column, order) ==
    /\ Len(list) = Len(payload)
    /\ { list[i] : i \in 1..Len(list) } = { payload[i] : i \in 1..Len(payload) }
    /\ \A i \in 1..(Len(list) - 1) :
         LET k1 == IF column = "Id" THEN list[i].id ELSE list[i].name
             k2 == IF column = "Id" THEN list[i + 1].id ELSE list[i + 1].name
         IN  IF order = "Asc" THEN k1 <= k2 ELSE k1 >= k2

\* the slice m addresses holds the payload of m and nothing else
SliceIsPayload(a, m) ==
    IF SliceOf(m.variant) = "agents"
      THEN IsPayloadInSortOrder(a.agents, AgentListOf(m.payload),
                                a.sort_column, a.sort_order)
      ELSE a[SliceOf(m.variant)] = PayloadAsSlice(m)

\* positions i < j of `drained` hold messages A and B for one slice, and B
\* is the last message of the drain for that slice
LastPairOfSlice(i, j) ==
    /\ i < j
    /\ SliceOf(drained[i].variant) = SliceOf(drained[j].variant)
    /\ \A k \in (j + 1)..Len(drained) :
          SliceOf(drained[k].variant) # SliceOf(drained[j].variant)

\* the channel is first-in first-out: what the loop has received and what is
\* still queued are in the order of sending
ReceivedInSendOrder ==
    LET all == drained \o chan
    IN  \A i \in 1..(Len(all) - 1) : all[i].payload < all[i + 1].payload

IsNotification(m) == m.variant = "Notification"

\* the payloads of the notifications received in this drain, in order
DrainedNotifications ==
    LET ns == SelectSeq(drained, IsNotification)
    IN  [i \in 1..Len(ns) |-> ns[i].payload]

\* the drain loop has emptied the channel and is about to end
DrainComplete == mainPc = "drain" /\ chan = <<>>

IsDrainStep ==
    mainPc = "drain" /\ chan # <<>> /\ drained' = Append(drained, Head(chan))

\* everything of App but the slice s is left as it was
OtherSlicesUnchanged(s) ==
    \A f \in DOMAIN app : f # s => app'[f] = app[f]

DataSlices == Slices \ {"notifications", "error_message", "popup_mode"}

\* C5 as stated: a slice of fetched data takes a new value, other than the
\* empty one of App::new, only in a turn of the drain loop, by the DataUpdate
\* applied there.
C5_FetchedDataOnlyThroughDrain ==
    [][(\E f \in DataSlices : app'[f] # app[f] /\ app'[f] # NewApp[f])
          => IsDrainStep]_vars

\* the messages operation t has produced so far
SentBy(t) ==
    { m \in applied : m.task = t }
       \cup { chan[i] : i \in { j \in 1..Len(chan) : chan[j].task = t } }
       \cup { tasks[t].outbox[i] : i \in 1..Len(tasks[t].outbox) }

ErrorVariants == {"Notification", "Error", "ErrorPopup"}

\* C6 as stated: for every domain operation that failed inside a spawned
\* operation, that operation has sent a Notification, Error or ErrorPopup
\* message for it.
C6_EveryFailureIsReported ==
    \A t \in DOMAIN tasks :
       \A o \in tasks[t].failed :
          \E m \in SentBy(t) : m.op = o /\ m.variant \in ErrorVariants

\* C7 as stated: main()'s loop never stands at the await of a backend call.
C7_LoopNeverAwaitsBackend == mainPc # "await_list_agents"

\* C8: no step cancels a spawned operation: an operation stays in the list
\* with its program, and only a step of its own moves it, each such step
\* being the next of its program or the next send of its step; a key
\* handler, a change of view included, leaves every operation as it is.
C8_NeverCancelled ==
    [][\A t \in DOMAIN tasks :
          /\ t \in DOMAIN tasks'
          /\ tasks'[t].kind = tasks[t].kind
          /\ tasks'[t] # tasks[t] =>
                /\ app' = app
                /\ mainPc' = mainPc
                /\ \/ /\ tasks'[t].pc = tasks[t].pc + 1
                      /\ tasks[t].outbox = <<>>
                   \/ /\ tasks'[t].pc = tasks[t].pc
                      /\ tasks[t].outbox # <<>>
                      /\ tasks'[t].outbox = Tail(tasks[t].outbox)
                      /\ chan' = Append(chan, Head(tasks[t].outbox))]_vars

\* the initial load, spawned on the dashboard, and the load of a later Tab
\* both fetched the agents; the view has changed since; the later
\* operation's agents were applied first and the initial load's, the stale
\* ones, are what the agent list holds
C8_Witness ==
    /\ Len(tasks) = 2
    /\ tasks[1].kind = "initial"
    /\ tasks[2].kind = "tab_main"
    /\ app.active_view = "AgentList"
    /\ Msg("Agents", 1, 1, "list_agents") \in applied
    /\ Msg("Agents", 2, 2, "list_agents") \in applied
    /\ chan = <<>>
    /\ SliceIsPayload(app, Msg("Agents", 1, 1, "list_agents"))
    /\ ~SliceIsPayload(app, Msg("Agents", 2, 2, "list_agents"))

\* the sub-steps of an inspector load, in the order written
InspectorOrder ==
    << "get_hardware_info", "get_processes", "get_programs",
       "get_vulnerabilities", "get_logs", "get_agent_config" >>

\* the place of a domain operation in that order
InspectorRank(op) ==
    CHOOSE i \in 1..Len(InspectorOrder) : InspectorOrder[i] = op

IsInspectorLoad(t) == tasks[t].kind \in {"inspect", "refresh_inspector"}

\* a message of an inspector load about one of its sub-steps
IsInspectorMessage(m) ==
    /\ m.task \in DOMAIN tasks
    /\ IsInspectorLoad(m.task)
    /\ m.op # "-"

\* C9: when the drain loop receives a message of an inspector load, every
\* message of the same load it received before is about an earlier sub-step
\* (hardware, processes, programs, vulnerabilities, logs, config), and every
\* message of the load still queued is about a later one.
C9_InspectorMessagesInWrittenOrder ==
    [][(IsDrainStep /\ IsInspectorMessage(Head(chan))) =>
          /\ \A m \in applied :
                m.task = Head(chan).task
                   => InspectorRank(m.op) < InspectorRank(Head(chan).op)
          /\ \A i \in 2..Len(chan) :
                (chan[i].task = Head(chan).task /\ chan[i].op # "-")
                   => InspectorRank(Head(chan).op) < InspectorRank(chan[i].op)]_vars

\* the six messages of an inspector load have been received, and in the
\* running drain a message of the load, spawned later, was received before
\* a message of the operation spawned before it
C9_Witness ==
    \E t \in DOMAIN tasks :
       /\ tasks[t].kind = "inspect"
       /\ \A i \in 1..6 :
             Msg(InspectorSteps("Error")[i].ok[1], t, t, InspectorOrder[i]) \in applied
       /\ \E i, j \in 1..Len(drained) :
             /\ i < j
             /\ drained[i].task = t
             /\ drained[j].task < t

\* when the n-th message was sent
SentAtLeast(n) == Cardinality(applied) + Len(chan) >= n

\* messages one run can send: three for an answer at most, and one
\* notification for an operation
MaxSent == 3 * MaxLiveOps + MaxLiveTasks

\* C10: a message is never applied a second time; while the loop keeps
\* iterating every message sent is applied; and nothing re-runs an
\* operation: a step once passed, failed or not, is not run again, and
\* operations are spawned by key handlers only.
C10_AppliedOnceAndNeverRerun ==
    /\ [][IsDrainStep => Head(chan) \notin applied]_vars
    /\ \A n \in 1..MaxSent :
          SentAtLeast(n) ~> (Cardinality(applied) >= n \/ Stopped)
    /\ [][/\ \A t \in DOMAIN tasks :
                /\ t \in DOMAIN tasks'
                /\ tasks'[t].pc >= tasks[t].pc
                /\ tasks[t].failed \subseteq tasks'[t].failed
          /\ Len(tasks') > Len(tasks) => mainPc = "input"]_vars

\* an operation has finished with a failed step behind it, what it sent has
\* been applied and the channel is empty
C10_Witness ==
    \E t \in DOMAIN tasks :
       /\ tasks[t].failed # {}
       /\ tasks[t].pc = Len(Program(tasks[t].kind))
       /\ \E m \in applied : m.task = t
       /\ chan = <<>>
       /\ mainPc = "input"

\* C18 as stated: main()'s loop never panics, and it ends only when
\* should_quit has been set.
C18_LoopNeverPanics ==
    /\ mainPc # "panicked"
    /\ mainPc = "quit" => app.should_quit

\* the first backend call after a configuration was loaded, the list_agents
\* of the initial load with the authentication it starts with, has failed
FirstCallFailed ==
    \E t \in DOMAIN tasks :
        tasks[t].kind = "initial" /\ "list_agents" \in tasks[t].failed

\* C19 as stated: when a configuration was loaded and the first
\* authentication fails, the wizard becomes active while the loop runs.
C19_FailedFirstAuthenticationOpensWizard ==
    FirstCallFailed ~> (app.is_config_wizard_active \/ Stopped)

(***************************************************************************)
(* The gateway alone: concurrent callers of request() on one shared cell.  *)
(***************************************************************************)
InitGateway ==
    /\ InitCell
    /\ app = NewApp
    /\ chan = <<>>
    /\ mainPc = "drain"
    /\ drained = <<>>
    /\ applied = {}
    /\ tasks = <<>>
    /\ filtered_agents = <<>>
    /\ budget = NoBudget

SpecGateway == InitGateway /\ [][NextGateway]_vars

(***************************************************************************)
(* get_logs: the query document it builds from its arguments and posts to  *)
(* the search endpoint.  A JSON object is a record, an array a sequence, a *)
(* string built from the arguments the sequence of its chars.              *)
(***************************************************************************)

\* the char of a decimal digit
DigitChar(d) == CHOOSE c \in Digits : DigitValue(c) = d

\* u32's Display: the decimal digits, without leading zeros
RECURSIVE FormatU32(_)
FormatU32(n) ==
    IF n < 10 THEN <<DigitChar(n)>>
    ELSE FormatU32(n \div 10) \o <<DigitChar(n % 10)>>

\* str::split(','): the parts between the separators, empty ones included;
\* `parts` are the complete ones so far and `cur` the one being read
RECURSIVE SplitAt(_, _, _, _)
SplitAt(str, sep, parts, cur) ==
    IF str = <<>> THEN Append(parts, cur)
    ELSE IF Head(str) = sep THEN SplitAt(Tail(str), sep, Append(parts, cur), <<>>)
    ELSE SplitAt(Tail(str), sep, parts, Append(cur, Head(str)))

Split(str, sep) == SplitAt(str, sep, <<>>, <<>>)

\* str::trim
RECURSIVE TrimStart(_)
TrimStart(str) ==
    IF str # <<>> /\ IsWhitespace(Head(str)) THEN TrimStart(Tail(str)) ELSE str

RECURSIVE TrimEnd(_)
TrimEnd(str) ==
    IF str # <<>> /\ IsWhitespace(str[Len(str)])
      THEN TrimEnd(SubSeq(str, 1, Len(str) - 1))
      ELSE str

Trim(str) == TrimEnd(TrimStart(str))

\* enum SeverityFilterMode
SeverityFilterModes == {"Min", "Max", "Exact", "Range"}

\* the time range that opens `must`
TimeRangeClause(minutes) ==
    [range |-> ("@timestamp" :>
        [gte |-> <<"n", "o", "w", "-">> \o FormatU32(minutes) \o <<"m">>,
         lte |-> "now"])]

\* a severity clause that is a two-sided range in every mode
SeverityClauseAlwaysRange(f) ==
    [range |-> ("rule.level" :> [gte |-> f.val1, lte |-> f.val2])]

\* severity_query
SeverityClause(f) ==
    CASE f.mode = "Min" -> [range |-> ("rule.level" :> [gte |-> f.val1])]
      [] f.mode = "Max" -> [range |-> ("rule.level" :> [lte |-> f.val1])]
      [] f.mode = "Exact" -> [term |-> ("rule.level" :> f.val1)]
      [] f.mode = "Range" ->
            [range |-> ("rule.level" :> [gte |-> f.val1, lte |-> f.val2])]

\* { "wildcard": { field: { "value": "*text*", "case_insensitive": true } } }
\* with the text in lower case
WildcardAround(field, text) ==
    [wildcard |-> (field :>
        [value |-> <<"*">> \o ToLowercase(text) \o <<"*">>, case_insensitive |-> TRUE])]

\* a rule-id clause that looks for '*' before it looks for ','
RuleIdClauseWildcardFirst(f) ==
    IF Contains(f.rule_id_filter, <<"*">>)
      THEN [wildcard |-> ("rule.id" :> [value |-> f.rule_id_filter])]
    ELSE IF Contains(f.rule_id_filter, <<",">>)
      THEN LET parts == Split(f.rule_id_filter, ",")
           IN  [terms |-> ("rule.id" :> [i \in 1..Len(parts) |-> Trim(parts[i])])]
    ELSE [term |-> ("rule.id" :> f.rule_id_filter)]

\* the rule-id clause of a rule_id_filter that is not empty
RuleIdClause(f) ==
    IF Contains(f.rule_id_filter, <<",">>)
      THEN LET parts == Split(f.rule_id_filter, ",")
           IN  [terms |-> ("rule.id" :> [i \in 1..Len(parts) |-> Trim(parts[i])])]
    ELSE IF Contains(f.rule_id_filter, <<"*">>)
      THEN [wildcard |-> ("rule.id" :> [value |-> f.rule_id_filter])]
    ELSE [term |-> ("rule.id" :> f.rule_id_filter)]

DescriptionClause(f) ==
    [match |-> ("rule.description" :>
        [query |-> f.description_filter, operator |-> "and"])]

MitreClause(f) ==
    [bool |-> [should |-> << WildcardAround("rule.mitre.id", f.mitre_filter),
                             WildcardAround("rule.mitre.tactic", f.mitre_filter),
                             WildcardAround("rule.mitre.technique", f.mitre_filter) >>,
               minimum_should_match |-> 1]]

\* what `if let Some(f) = filter { .. }` pushes
FilterClauses(f) ==
    <<SeverityClause(f)>>
       \o (IF f.agent_filter # <<>> THEN <<WildcardAround("agent.name", f.agent_filter)>>
                                    ELSE <<>>)
       \o (IF f.rule_id_filter # <<>> THEN <<RuleIdClause(f)>> ELSE <<>>)
       \o (IF f.description_filter # <<>> THEN <<DescriptionClause(f)>> ELSE <<>>)
       \o (IF f.mitre_filter # <<>> THEN <<MitreClause(f)>> ELSE <<>>)

AgentIdClause(id) == [term |-> ("agent.id" :> id)]

\* a must list with the agent.id clause in front of the filter's clauses
MustClausesAgentIdFirst(args) ==
    <<TimeRangeClause(args.minutes)>>
       \o (IF args.agent_id # None THEN <<AgentIdClause(args.agent_id[1])>> ELSE <<>>)
       \o (IF args.filter # None THEN FilterClauses(args.filter[1]) ELSE <<>>)

\* `must`, when the query is built
MustClauses(args) ==
    <<TimeRangeClause(args.minutes)>>
       \o (IF args.filter # None THEN FilterClauses(args.filter[1]) ELSE <<>>)
       \o (IF args.agent_id # None THEN <<AgentIdClause(args.agent_id[1])>> ELSE <<>>)

\* `query`
LogsQuery(args) ==
    [ from  |-> args.offset,
      size  |-> args.limit,
      sort  |-> << ("@timestamp" :> [order |-> "desc"]) >>,
      query |-> [bool |-> [must |-> MustClauses(args)]] ]

LogsRequest(args) == [method |-> "POST", body |-> Some(LogsQuery(args))]

\* get_logs(agent_id, minutes, offset, limit, filter): without os_url an
\* error before the query is built; otherwise one POST, and the body of the
\* response is returned whatever its status
GetLogsWith(p, args) ==
    /\ call[p].pc = "idle"
    /\ IF ~config.os_url
         THEN call' = [call EXCEPT ![p] =
                         Returned([IdleCall EXCEPT !.args = Some(args)], ConfigError)]
         ELSE \/ call' = [call EXCEPT ![p] =
                  Returned(SearchPosted(LogsRequest(args), Some(args)), TransportError)]
              \/ \E s \in HttpStatuses :
                    call' = [call EXCEPT ![p] =
                       Returned(SearchAnswered(LogsRequest(args), Some(args), s),
                                OkResult(s, 1))]
    /\ UNCHANGED <<token, config, mainVars>>

\* the arguments of the initial load: get_logs(None, 1440, 0, 1000, None)
InitialLoadLogs ==
    [agent_id |-> None, minutes |-> 1440, offset |-> 0, limit |-> 1000, filter |-> None]

\* get_logs, as the initial load calls it
GetLogs(p) == GetLogsWith(p, InitialLoadLogs)

(***************************************************************************)
(* The whole API layer: request() and the two operations that post to the  *)
(* search endpoint themselves, under every configuration of that endpoint. *)
(***************************************************************************)

\* concurrent callers in a run of the whole API layer
NumApiCallers == 1

InitApi ==
    /\ token = None
    /\ config \in Configs
    /\ call = [p \in 1..NumApiCallers |-> IdleCall]
    /\ app = NewApp
    /\ chan = <<>>
    /\ mainPc = "drain"
    /\ drained = <<>>
    /\ applied = {}
    /\ tasks = <<>>
    /\ filtered_agents = <<>>
    /\ budget = NoBudget

NextApi ==
    \E p \in DOMAIN call :
        \/ Request(p)
        \/ GetToken(p)
        \/ Authenticate(p)
        \/ StoreToken(p)
        \/ Reauthenticate(p)
        \/ RestoreToken(p)
        \/ Send1(p)
        \/ Send2(p)
        \/ ReadBody(p)
        \/ Return(p)
        \/ GetLogs(p)
        \/ GetVulnerabilities(p)

SpecApi == InitApi /\ [][NextApi]_vars

(***************************************************************************)
(* get_logs alone, with every argument.  It shares nothing with other      *)
(* calls, so one caller is followed.                                       *)
(***************************************************************************)

\* LogFilter: both one-sided modes, Exact and Range; each text filter
\* empty and not; rule ids with ',' and '*', with both, and with neither
LogFilters ==
    [ mode : SeverityFilterModes,
      val1 : {12},
      val2 : {14},
      agent_filter : { <<>>, <<"W", "e", "b">> },
      rule_id_filter : { <<>>, <<"5", "7">>, <<"5", "*">>, <<"5", "7", ",", " ", "5", "8">>, <<"5", "*", ",", "5", "8">>, <<",">> },
      description_filter : { <<>>, <<"s", "s", "h">> },
      mitre_filter : { <<>>, <<"T", "1">> } ]

\* the arguments of get_logs
LogsArgs ==
    [ agent_id : { None, Some(<<"0", "0", "1">>), Some(<<>>) },
      minutes  : {15, 1440},
      offset   : {0, 50},
      limit    : {100},
      filter   : {None} \cup { Some(f) : f \in LogFilters } ]

InitLogs ==
    /\ token = None
    /\ config \in Configs
    /\ call = [p \in {1} |-> IdleCall]
    /\ app = NewApp
    /\ chan = <<>>
    /\ mainPc = "drain"
    /\ drained = <<>>
    /\ applied = {}
    /\ tasks = <<>>
    /\ filtered_agents = <<>>
    /\ budget = NoBudget

NextLogs ==
    \E p \in DOMAIN call :
        \/ \E args \in LogsArgs : GetLogsWith(p, args)
        \/ Return(p)

SpecLogs == InitLogs /\ [][NextLogs]_vars

(***************************************************************************)
(* get_summary alone: one caller asks for the page of agents through       *)
(* request() and counts what the backend answers: a page of agents in any  *)
(* status, and any total.                                                  *)
(***************************************************************************)

\* agents in the page the backend answers with
MaxFetched == 3

\* the statuses of the backend; pending is one get_summary has no bucket for
AgentStatuses == {"active", "disconnected", "never_connected", "pending"}

\* WazuhAgentsData, of an agent its status
AgentsPages ==
    [ affected_items :
        UNION { [1..n -> [status : AgentStatuses]] : n \in 0..MaxFetched },
      total_affected_items : 0..(MaxFetched + 1) ]

InitSummary ==
    /\ token = None
    /\ config = WizardConfig
    /\ call = [p \in {1} |-> IdleCall]
    /\ app = NewApp
    /\ chan = <<>>
    /\ mainPc = "drain"
    /\ drained = <<>>
    /\ applied = {}
    /\ tasks = <<>>
    /\ filtered_agents = <<>>
    /\ budget = NoBudget

NextSummary ==
    \E p \in DOMAIN call :
        \/ Request(p)
        \/ GetToken(p)
        \/ Authenticate(p)
        \/ StoreToken(p)
        \/ Reauthenticate(p)
        \/ RestoreToken(p)
        \/ Send1(p)
        \/ Send2(p)
        \/ ReadBody(p)
        \/ \E data \in AgentsPages : GetSummary(p, data)
        \/ Return(p)

SpecSummary == InitSummary /\ [][NextSummary]_vars

(***************************************************************************)
(* get_vulnerabilities alone, with every shape of the search response.     *)
(***************************************************************************)

\* hits in one search response
MaxHits == 2

\* models::OSVulnerabilityDetails: of its optional fields the two that are read
OSVulnerabilityDetails ==
    [ id : {"CVE-1", "CVE-2"},
      severity : {None, Some("Critical")},
      description : {None, Some("pip vulnerability")} ]

\* models::OSPackage
OSPackage == [name : {None, Some("pip")}, version : {None, Some("23.3.1")}]

\* models::OSVulnerabilityHitWrapper
OSVulnerabilityHitWrapper ==
    { [_source |-> [vulnerability |-> v, package |-> pkg]] :
        v \in OSVulnerabilityDetails,
        pkg \in {None} \cup {Some(x) : x \in OSPackage} }

\* models::OSVulnerabilityResponse: hits.total.value counts the matches of the
\* index, hits.hits is the page of them that is returned
OSVulnerabilityResponse ==
    { [hits |-> [total |-> [value |-> t], hits |-> h]] :
        t \in {0, 7},
        h \in UNION {[1..n -> OSVulnerabilityHitWrapper] : n \in 0..MaxHits} }

InitVulnerabilities ==
    /\ token = None
    /\ config \in {c \in Configs : c.os_credentials}
    /\ call = [p \in {1} |-> IdleCall]
    /\ app = NewApp
    /\ chan = <<>>
    /\ mainPc = "drain"
    /\ drained = <<>>
    /\ applied = {}
    /\ tasks = <<>>
    /\ filtered_agents = <<>>
    /\ budget = NoBudget

NextVulnerabilities ==
    \E p \in DOMAIN call :
        \/ GetVulnerabilitiesOf(p, OSVulnerabilityResponse)
        \/ Return(p)

SpecVulnerabilities == InitVulnerabilities /\ [][NextVulnerabilities]_vars

(***************************************************************************)
(* get_agent_config and update_agent_config: the URL each passes to        *)
(* request().  A URL is the list of what format! puts between the          *)
(* slashes, after the base URL.                                            *)
(***************************************************************************)

\* an update_agent_config that takes the component name for every section
UpdateAgentConfigSectionNoAlias(component) == component

\* get_agent_config: let section = match component { .. }
GetAgentConfigSection(component) ==
    CASE component = "logcollector" -> "localfile"
      [] component = "agent" -> "client"
      [] component = "analysis" -> "global"
      [] component = "wmodules" -> "wmodules"
      [] OTHER -> component

\* update_agent_config: let section = match component { .. }
UpdateAgentConfigSection(component) ==
    CASE component = "logcollector" -> "localfile"
      [] component = "agent" -> "client"
      [] component = "analysis" -> "global"
      [] OTHER -> component

\* format!("{}/agents/{}/config/{}/{}", self.config.url, agent_id, component, section)
AgentConfigUrl(agent_id, component, section) ==
    <<"agents", agent_id, "config", component, section>>

\* get_agent_config(agent_id, component) enters request(GET, url, None)
GetAgentConfig(p, agent_id, component) ==
    /\ call[p].pc = "idle"
    /\ call' = [call EXCEPT ![p] =
          [IdleCall EXCEPT
             !.pc = "get_token",
             !.args = Some([op |-> "get_agent_config", agent_id |-> agent_id,
                            component |-> component]),
             !.req = [method |-> "GET",
                      url |-> AgentConfigUrl(agent_id, component,
                                             GetAgentConfigSection(component)),
                      body |-> None]]]
    /\ UNCHANGED <<token, config, mainVars>>

\* update_agent_config(agent_id, component, config) enters
\* request(PUT, url, Some(config))
UpdateAgentConfig(p, agent_id, component) ==
    /\ call[p].pc = "idle"
    /\ call' = [call EXCEPT ![p] =
          [IdleCall EXCEPT
             !.pc = "get_token",
             !.args = Some([op |-> "update_agent_config", agent_id |-> agent_id,
                            component |-> component]),
             !.req = [method |-> "PUT",
                      url |-> AgentConfigUrl(agent_id, component,
                                             UpdateAgentConfigSection(component)),
                      body |-> Some("config")]]]
    /\ UNCHANGED <<token, config, mainVars>>

\* the components the backend knows, and three names it does not
ConfigComponents ==
    { "agent", "agentless", "analysis", "auth", "com", "csyslog", "integrator",
      "logcollector", "mail", "monitor", "request", "syscheck", "wazuh-db",
      "wmodules", "Agent", "localfile", "" }

ConfigAgentIds == {"001", "002"}

InitConfig ==
    /\ token = None
    /\ config = WizardConfig
    /\ call = [p \in {1} |-> IdleCall]
    /\ app = NewApp
    /\ chan = <<>>
    /\ mainPc = "drain"
    /\ drained = <<>>
    /\ applied = {}
    /\ tasks = <<>>
    /\ filtered_agents = <<>>
    /\ budget = NoBudget

NextConfig ==
    \E p \in DOMAIN call :
        \/ \E id \in ConfigAgentIds, component \in ConfigComponents :
              \/ GetAgentConfig(p, id, component)
              \/ UpdateAgentConfig(p, id, component)
        \/ GetToken(p)
        \/ Authenticate(p)
        \/ StoreToken(p)
        \/ Reauthenticate(p)
        \/ RestoreToken(p)
        \/ Send1(p)
        \/ Send2(p)
        \/ ReadBody(p)
        \/ Return(p)

SpecConfig == InitConfig /\ [][NextConfig]_vars

(***************************************************************************)
(* The channel at its capacity: spawned operations that send more          *)
(* messages than the channel holds, against the drain loop and 'q'.  Every *)
(* message is a DataUpdate::Error, which the reducer stores in one field.  *)
(***************************************************************************)

\* messages sent beyond the capacity of the channel
MaxOverflow == 1

\* a send that, finding the channel full, takes the place of the newest
\* queued message
SendErrorOverwriting ==
    /\ ~Stopped
    /\ budget.messages > 0
    /\ LET update == Msg("Error", Cardinality(applied) + Len(chan) + 1, 0, "-")
       IN chan' = IF Len(chan) < ChannelCapacity
                    THEN Append(chan, update)
                    ELSE [chan EXCEPT ![Len(chan)] = update]
    /\ budget' = [budget EXCEPT !.messages = @ - 1]
    /\ UNCHANGED <<app, mainPc, drained, applied, tasks, filtered_agents, gatewayVars>>

\* let _ = tx.send(DataUpdate::Error(..)).await of a spawned operation while
\* rx lives: the send completes once the channel has room for the message
SendError ==
    /\ ~Stopped
    /\ budget.messages > 0
    /\ Len(chan) < ChannelCapacity
    /\ chan' = Append(chan, Msg("Error", Cardinality(applied) + Len(chan) + 1, 0, "-"))
    /\ budget' = [budget EXCEPT !.messages = @ - 1]
    /\ UNCHANGED <<app, mainPc, drained, applied, tasks, filtered_agents, gatewayVars>>

\* the same send after main() has left the loop and dropped rx, before the
\* runtime has cancelled the operation: send returns Err(SendError(update))
\* and `let _ =` discards it with the message
SendErrorClosed ==
    /\ Stopped
    /\ budget.messages > 0
    /\ budget' = [budget EXCEPT !.messages = @ - 1]
    /\ UNCHANGED <<app, chan, mainPc, drained, applied, tasks, filtered_agents,
                   gatewayVars>>

InitChannel ==
    /\ InitCell
    /\ app = [NewApp EXCEPT !.api = TRUE]
    /\ chan = <<>>
    /\ mainPc = "drain"
    /\ drained = <<>>
    /\ applied = {}
    /\ tasks = <<>>
    /\ filtered_agents = <<>>
    /\ budget = [NoBudget EXCEPT !.messages = ChannelCapacity + MaxOverflow]

NextChannel ==
    \/ SendError
    \/ SendErrorClosed
    \/ Drain
    \/ EndDrain
    \/ NoKey
    \/ KeyQuit

SpecChannel == InitChannel /\ [][NextChannel]_vars

(***************************************************************************)
(* The selection of the agent list against the arrival of a new list: the  *)
(* list view holds the three agents of an earlier fetch, the user moves    *)
(* the selection and refreshes.                                            *)
(***************************************************************************)

\* operations spawned in one run of the list view
MaxListTasks == 1
\* backend answers in it
MaxListOps == 3
\* of them, those that fail or come back empty
MaxListFaults == 1

\* the Vec<WazuhAgent> of an earlier answer of list_agents: three agents, as
\* sort_agents leaves them under the default sort (Id, ascending)
EarlierAgents ==
    << [id |-> 1, name |-> 3], [id |-> 2, name |-> 2], [id |-> 3, name |-> 1] >>

InitList ==
    /\ InitCell
    /\ app = [NewApp EXCEPT !.api = TRUE, !.active_view = "AgentList",
                            !.agents = EarlierAgents]
    /\ chan = <<>>
    /\ mainPc = "drain"
    /\ drained = <<>>
    /\ applied = {}
    /\ tasks = <<>>
    /\ filtered_agents = <<>>
    /\ budget = [NoBudget EXCEPT !.spawns = MaxListTasks, !.answers = MaxListOps,
                                 !.faults = MaxListFaults]

NextList ==
    \/ Drain
    \/ EndDrain
    \/ NoKey
    \/ KeyDown
    \/ KeyUp
    \/ KeyPageDown
    \/ KeyPageUp
    \/ KeyRefresh
    \/ \E t \in DOMAIN tasks : TaskOk(t)
    \/ \E t \in DOMAIN tasks : TaskEmpty(t)
    \/ \E t \in DOMAIN tasks : TaskErr(t)
    \/ \E t \in DOMAIN tasks : TaskSend(t)
    \/ \E t \in DOMAIN tasks : TaskNotify(t)

SpecList == InitList /\ [][NextList]_vars

(***************************************************************************)
(* The agent list with the search bar: two agents are listed, the user     *)
(* opens the search bar, types, moves the selection and presses Enter.     *)
(***************************************************************************)

\* chars typed and erased in the search bar in one run
MaxHighlightKeys == 2

\* inspector loads spawned in one run
MaxHighlightTasks == 1

\* the chars typed: one that only the second agent's name holds, one that
\* both hold, one that neither holds
HighlightChars == {"d", "1", "z"}

\* app.agents as sort_agents leaves them under the default sort
HighlightAgents ==
    << [id |-> <<"0", "0", "1">>, name |-> <<"W", "a", "1">>, ip |-> None,
        status |-> <<"A", "c", "t", "i", "v", "e">>, os |-> None],
       [id |-> <<"0", "0", "2">>, name |-> <<"d", "b", "1">>, ip |-> None,
        status |-> <<"A", "c", "t", "i", "v", "e">>, os |-> None] >>

InitHighlight ==
    /\ InitCell
    /\ app = [NewApp EXCEPT !.api = TRUE, !.active_view = "AgentList",
                            !.agents = HighlightAgents]
    /\ chan = <<>>
    /\ mainPc = "drain"
    /\ drained = <<>>
    /\ applied = {}
    /\ tasks = <<>>
    /\ filtered_agents = <<>>
    /\ budget = [NoBudget EXCEPT !.keys = MaxHighlightKeys,
                                 !.spawns = MaxHighlightTasks]

NextHighlight ==
    \/ EndDrain
    \/ NoKey
    \/ KeySlash
    \/ \E c \in HighlightChars : KeySearchChar(c)
    \/ KeySearchBackspace
    \/ KeyEsc
    \/ KeyDown
    \/ KeyUp
    \/ KeyEnterAgent

SpecHighlight == InitHighlight /\ [][NextHighlight]_vars

(***************************************************************************)
(* The security events and their pages: the agent list is shown, the user  *)
(* switches to the events view, pages through the events and refreshes.    *)
(***************************************************************************)

\* operations spawned in one such run
MaxEventsTasks == 3

\* answers the backend gives to them
MaxEventsOps == 3

\* of them, the failures and the answers with nothing to send
MaxEventsFaults == 1

InitEvents ==
    /\ InitCell
    /\ app = [NewApp EXCEPT !.api = TRUE, !.active_view = "AgentList",
                            !.agents = EarlierAgents]
    /\ chan = <<>>
    /\ mainPc = "drain"
    /\ drained = <<>>
    /\ applied = {}
    /\ tasks = <<>>
    /\ filtered_agents = <<>>
    /\ budget = [NoBudget EXCEPT !.spawns = MaxEventsTasks, !.answers = MaxEventsOps,
                                 !.faults = MaxEventsFaults]

NextEvents ==
    \/ Drain
    \/ EndDrain
    \/ NoKey
    \/ KeyTab
    \/ KeyPageDown
    \/ KeyPageUp
    \/ KeyRefresh
    \/ \E t \in DOMAIN tasks : TaskOk(t)
    \/ \E t \in DOMAIN tasks : TaskEmpty(t)
    \/ \E t \in DOMAIN tasks : TaskErr(t)
    \/ \E t \in DOMAIN tasks : TaskSend(t)
    \/ \E t \in DOMAIN tasks : TaskNotify(t)

SpecEvents == InitEvents /\ [][NextEvents]_vars

(***************************************************************************)
(* The gateway's claims, checked under SpecGateway.                        *)
(***************************************************************************)

\* C1 as stated: a call whose first response was 401 has, when it returns,
\* reauthenticated exactly once and sent the same request exactly twice, and it
\* returns Ok only if the retry succeeded; no call sends more than two requests
\* or reauthenticates more than once.
C1_RetrySentAfterEvery401 ==
    \A p \in Callers :
        /\ Len(call[p].sent) <= 2
        /\ call[p].reauths <= 1
        /\ (call[p].pc = "done" /\ call[p].first = StatusUnauthorized) =>
              /\ call[p].reauths = 1
              /\ Len(call[p].sent) = 2
              /\ call[p].sent[2] = call[p].sent[1]
              /\ (call[p].ret.kind = "Ok" <=> IsSuccess(call[p].second))

\* C1, amended: after a first 401 the call reauthenticates exactly once; if that
\* authenticate() succeeds it sends the same request exactly one more time and
\* returns Ok exactly when the retry succeeds (a second 401 is an error); if the
\* authenticate() fails the call returns that error and sends no retry.  No call
\* sends more than two requests or reauthenticates more than once, and it
\* reauthenticates only after a 401.
C1_OneReauthOneRetry ==
    \A p \in Callers :
        /\ Len(call[p].sent) <= 2
        /\ call[p].reauths <= 1
        /\ call[p].reauths = 1 => call[p].first = StatusUnauthorized
        /\ Len(call[p].sent) = 2 => call[p].reauths = 1 /\ call[p].sent[2] = call[p].sent[1]
        /\ (call[p].pc = "done" /\ call[p].first = StatusUnauthorized) =>
              /\ call[p].reauths = 1
              /\ \/ /\ Len(call[p].sent) = 2
                    /\ call[p].sent[2] = call[p].req
                    /\ call[p].ret.kind = "Ok" <=> IsSuccess(call[p].second)
                 \/ /\ Len(call[p].sent) = 1
                    /\ call[p].ret.kind \in {"AuthError", "TransportError"}

\* a call whose first response and whose retry were both answered 401 has
\* returned an error after one reauthentication and two requests
C1_Witness ==
    \E p \in Callers :
        /\ call[p].pc = "done"
        /\ call[p].first = StatusUnauthorized
        /\ call[p].second = StatusUnauthorized
        /\ call[p].reauths = 1
        /\ Len(call[p].sent) = 2
        /\ call[p].ret.kind = "HttpStatusError"

\* C2: nothing makes check-then-authenticate atomic.  A caller that read the
\* cell as absent exchanges credentials on its next step whatever the cell holds
\* by then: get_token does not look at the cell again and there is no
\* single-flight.
C2_AbsentReaderAlwaysAuthenticates ==
    [][\A p \in Callers :
          (call[p].pc = "authenticate" /\ call'[p] # call[p])
             => call'[p].auths = call[p].auths + 1]_vars

\* two callers have both read the cell as absent and both exchanged credentials:
\* each holds a token of its own that it is about to store
C2_Witness ==
    \E p, q \in Callers :
        /\ p # q
        /\ call[p].pc = "store" /\ call[p].auths = 1 /\ call[p].sent = <<>>
        /\ call[q].pc = "store" /\ call[q].auths = 1 /\ call[q].sent = <<>>
        /\ call[p].fresh # call[q].fresh

\* C11: get_token sends the caller to authenticate() exactly when it reads
\* the cell as absent, and otherwise hands the cached token to the first
\* send with nothing on the wire yet; so the first HTTP call of a request()
\* is the credential exchange if and only if the cell was read as absent,
\* and with a cached token it is the request itself, carrying that token.
C11_AuthenticatesFirstIffCellAbsent ==
    /\ [][\A p \in Callers :
             (call[p].pc = "get_token" /\ call'[p] # call[p]) =>
                /\ call'[p].wire = <<>>
                /\ IF token = None
                     THEN call'[p].pc = "authenticate"
                     ELSE call'[p].pc = "send1" /\ call'[p].tok = token]_vars
    /\ [](\A p \in Callers :
             /\ call[p].pc = "authenticate" => call[p].seen = "absent"
             /\ call[p].wire # <<>> =>
                   /\ call[p].wire[1].to = "authenticate" <=> call[p].seen = "absent"
                   /\ call[p].seen = "present" =>
                         call[p].wire[1] = HttpCall("api", BearerAuth(FromCell)))

\* a call that found a token in the cell has returned Ok after one HTTP call,
\* the request with the cached token, and no credential exchange
C11_Witness ==
    \E p \in Callers :
        /\ call[p].pc = "done"
        /\ call[p].seen = "present"
        /\ call[p].auths = 0
        /\ call[p].wire = <<HttpCall("api", BearerAuth(FromCell))>>
        /\ call[p].ret.kind = "Ok"

\* C12: the step of authenticate() that follows a successful exchange writes
\* the token taken from the response into the cell, whatever the cell held,
\* and the caller continues with that same token.
C12_StoresAndReturnsExtractedToken ==
    [][\A p \in Callers :
          (call[p].pc \in {"store", "restore"} /\ call'[p] # call[p]) =>
             /\ call[p].fresh # None
             /\ token' = call[p].fresh
             /\ call'[p].tok = call[p].fresh
             /\ call'[p].tokFrom = FromAuthenticate]_vars

\* a caller that had found a token in the cell has reauthenticated and has
\* just overwritten the cell: the cell and its local token are the new one
C12_Witness ==
    \E p \in Callers :
        /\ call[p].pc = "send2"
        /\ call[p].seen = "present"
        /\ call[p].tok # None
        /\ call[p].tok = token

\* C13: an authenticate() that ends in an error (a non-success status, a
\* failed send or a malformed body) returns that error to the caller of
\* request() and does not touch the cell.
C13_FailedAuthenticateLeavesCell ==
    [][\A p \in Callers :
          (call[p].pc \in {"authenticate", "reauthenticate"} /\ call'[p].pc = "done") =>
             /\ call'[p].ret.kind \in {"AuthError", "TransportError"}
             /\ call'[p].ret.kind = "AuthError" => ~IsSuccess(call'[p].ret.status)
             /\ token' = token]_vars

\* a reauthentication has been refused while the cell held a token, and the
\* cell still holds one
C13_Witness ==
    \E p \in Callers :
        /\ call[p].pc = "done"
        /\ call[p].ret.kind = "AuthError"
        /\ call[p].reauths = 1
        /\ token # None

\* C14: no step takes a token out of the cell: once populated it stays
\* populated.
C14_CellNeverClearedAgain ==
    [][token # None => token' # None]_vars

\* the cell has been replaced by another token: a caller still holds the
\* token it read from the cell, and the cell holds a different one
C14_Witness ==
    \E p \in Callers :
        /\ call[p].tokFrom = FromCell
        /\ call[p].tok # None
        /\ token # None
        /\ call[p].tok # token

\* a call whose first response was a failure other than 401
FailedFirst(p) ==
    /\ call[p].first # 0
    /\ call[p].first # StatusUnauthorized
    /\ ~IsSuccess(call[p].first)

\* C15 as stated: a call whose first response was a non-success other than
\* 401 returns the error that carries that status and the body of that
\* response, after one request and no reauthentication.
C15_FailsWithStatusAndBody ==
    \A p \in Callers :
        (call[p].pc = "done" /\ FailedFirst(p)) =>
           /\ call[p].ret = StatusError(call[p].first, 1)
           /\ call[p].reauths = 0
           /\ Len(call[p].sent) = 1

\* C15, amended: such a call returns an error after one request and no
\* reauthentication: the error that carries the status and the body when the
\* body could be read, the error of reading it otherwise; and no step of the
\* call after that response writes the cell.
C15_FailsWithoutRetry ==
    /\ [](\A p \in Callers :
             /\ FailedFirst(p) =>
                   /\ call[p].pc \in {"body", "done"}
                   /\ call[p].reauths = 0
                   /\ Len(call[p].sent) = 1
             /\ (call[p].pc = "done" /\ FailedFirst(p)) =>
                   \/ call[p].ret = StatusError(call[p].first, 1)
                   \/ call[p].ret = TransportError)
    /\ [][\A p \in Callers :
             (call'[p] # call[p] /\ (FailedFirst(p) \/ FailedFirst(p)')
                 /\ call'[p].pc # "idle") => token' = token]_vars

\* a call has returned the error of a first response with status 500, and
\* another has failed to read the body of one
C15_Witness ==
    \E p, q \in Callers :
        /\ call[p].pc = "done"
        /\ call[p].ret = StatusError(StatusServerError, 1)
        /\ call[q].pc = "done"
        /\ call[q].first = StatusServerError
        /\ call[q].ret = TransportError

\* C16: the cell changes only in the step of authenticate() that stores the
\* token of a successful exchange.
C16_CellWrittenOnlyByAuthenticate ==
    [][token' # token =>
          \E p \in Callers :
             /\ call[p].pc \in {"store", "restore"}
             /\ call'[p].pc \in {"send1", "send2"}
             /\ token' = call[p].fresh]_vars

\* the authenticate() called by get_token has just populated the cell
C16_Witness ==
    \E p \in Callers :
        /\ call[p].pc = "send1"
        /\ call[p].tokFrom = FromAuthenticate
        /\ call[p].tok = token
        /\ token # None

(***************************************************************************)
(* The claims about the whole API layer, checked under SpecApi.            *)
(***************************************************************************)

\* the i-th HTTP call of caller p carries a bearer token that request() took
\* from the cell (its first call) or from the authenticate() it had just
\* called
CarriesBearer(p, i) ==
    LET w == call[p].wire
    IN  /\ w[i].cred.scheme = "bearer"
        /\ IF i = 1
             THEN w[i].cred.from = FromCell
             ELSE /\ w[i - 1].to = "authenticate"
                  /\ w[i].cred.from = FromAuthenticate

\* C17 as stated: every HTTP call other than the authentication POST carries
\* a bearer token from the cell or from the authenticate() just made, and
\* the authentication POST carries basic credentials.
C17_EveryCallCarriesBearer ==
    \A p \in DOMAIN call :
       \A i \in 1..Len(call[p].wire) :
          IF call[p].wire[i].to = "authenticate"
            THEN call[p].wire[i].cred = BasicAuth
            ELSE CarriesBearer(p, i)

\* C17, amended: every HTTP call that request() sends carries a bearer token
\* from the cell or from the authenticate() just made, and the authentication
\* POST carries basic credentials; the searches of get_logs and
\* get_vulnerabilities carry no bearer token: they carry the basic
\* credentials of the search endpoint when both are configured and no
\* credentials otherwise.
C17_BearerExceptAuthenticationAndSearch ==
    \A p \in DOMAIN call :
       \A i \in 1..Len(call[p].wire) :
          CASE call[p].wire[i].to = "authenticate" -> call[p].wire[i].cred = BasicAuth
            [] call[p].wire[i].to = "api" -> CarriesBearer(p, i)
            [] call[p].wire[i].to = "search" ->
                 call[p].wire[i].cred = IF config.os_credentials THEN BasicAuth ELSE NoAuth

\* a request() has sent its request with the cached token, reauthenticated
\* after a 401 and sent the retry with the new token
C17_Witness ==
    \E p \in DOMAIN call :
        /\ call[p].pc = "done"
        /\ call[p].wire = << HttpCall("api", BearerAuth(FromCell)),
                             HttpCall("authenticate", BasicAuth),
                             HttpCall("api", BearerAuth(FromAuthenticate)) >>

(***************************************************************************)
(* The claims about the agent filter, checked under SpecFilter.            *)
(***************************************************************************)

\* the whitespace-delimited tokens of a query, in input order: each starts
\* where a char that is not a space follows the start or a space, and ends
\* before the next space
TokensOf(query) ==
    LET starts == { a \in 1..Len(query) :
                      query[a] # " " /\ (a = 1 \/ query[a - 1] = " ") }
        EndOf(a) == CHOOSE b \in a..Len(query) :
                      /\ \A i \in a..b : query[i] # " "
                      /\ b = Len(query) \/ query[b + 1] = " "
        Nth(i) == CHOOSE a \in starts : Cardinality({ x \in starts : x < a }) = i - 1
    IN  [i \in 1..Cardinality(starts) |-> SubSeq(query, Nth(i), EndOf(Nth(i)))]

HasColon(tok) == \E i \in 1..Len(tok) : tok[i] = ":"

\* what stands before and after the first ':' of a token that has one
KeyOf(tok) ==
    LET k == CHOOSE i \in 1..Len(tok) : tok[i] = ":" /\ \A j \in 1..(i - 1) : tok[j] # ":"
    IN  SubSeq(tok, 1, k - 1)

ValueOf(tok) == SubSeq(tok, Len(KeyOf(tok)) + 2, Len(tok))

IsSeverityToken(tok) ==
    HasColon(tok) /\ ToLowercase(KeyOf(tok)) \in {<<"s", "e", "v">>, <<"s">>}

\* the predicate the claim gives a token that is not a severity token
ClaimedPredicate(tok) ==
    LET key == IF HasColon(tok) THEN ToLowercase(KeyOf(tok)) ELSE <<>>
        kind == IF ~HasColon(tok) THEN "Global"
                ELSE CASE key \in {<<"n", "a", "m", "e">>, <<"n">>} -> "Name"
                       [] key = <<"i", "d">> -> "Id"
                       [] key = <<"i", "p">> -> "Ip"
                       [] key \in {<<"s", "t", "a", "t", "u", "s">>, <<"s", "t">>} -> "Status"
                       [] key = <<"o", "s">> -> "Os"
                       [] OTHER -> "Global"
    IN  Predicate(kind, ToLowercase(IF kind = "Global" THEN tok ELSE ValueOf(tok)))

IsPlainToken(tok) == ~IsSeverityToken(tok)

IsFieldPredicate(pred) == pred.kind # "Severity"

\* C20: the predicates that are not Severity are, in input order, those of
\* the tokens that are not severity tokens: Name, Id, Ip, Status or Os of the
\* lower-cased value for the keys name|n, id, ip, status|st, os in any case,
\* and Global of the whole lower-cased token for a token without ':' or
\* with another key; a query without severity tokens has exactly one
\* predicate per token.
C20_OnePredicatePerToken ==
    LET toks == TokensOf(app.search_query)
        plain == SelectSeq(toks, IsPlainToken)
        preds == app.agent_filter.predicates
    IN  /\ app.agent_filter.raw_query = app.search_query
        /\ SelectSeq(preds, IsFieldPredicate)
              = [i \in 1..Len(plain) |-> ClaimedPredicate(plain[i])]
        /\ plain = toks =>
              /\ Len(preds) = Len(toks)
              /\ \A i \in 1..Len(toks) : preds[i] = ClaimedPredicate(toks[i])

\* an edited query of two tokens, a key in upper case and a key parse does
\* not know, has been parsed into a Name and a Global predicate
C20_Witness ==
    /\ budget.keys < MaxQueryKeys
    /\ app.search_query = <<"N", "a", "m", "e", ":", "W", "b", " ", "z", ":", "a", ":", "B", "x">>
    /\ app.agent_filter.predicates =
          << Predicate("Name", <<"w", "b">>),
             Predicate("Global", <<"z", ":", "a", ":", "b", "x">>) >>

(***************************************************************************)
(* The claims about severity tokens, checked under SpecSeverity, where the *)
(* query is one token.                                                     *)
(***************************************************************************)

\* the one token of the query
TheToken == TokensOf(app.search_query)[1]

OneSeverityToken ==
    /\ Len(TokensOf(app.search_query)) = 1
    /\ IsSeverityToken(TheToken)

\* the level names of the specification
LevelOfName(name) ==
    CASE name = <<"c", "r", "i", "t", "i", "c", "a", "l">> -> Some(12)
      [] name = <<"h", "i", "g", "h">> -> Some(8)
      [] name = <<"m", "e", "d", "i", "u", "m">> -> Some(4)
      [] name = <<"l", "o", "w">> -> Some(0)
      [] OTHER -> None

\* the short forms parse also knows
LevelOfShortName(name) ==
    CASE name = <<"c", "r", "i", "t">> -> Some(12)
      [] name = <<"m", "e", "d">> -> Some(4)
      [] OTHER -> None

\* the predicates of a severity value whose level, if it names one, is `level`
SeverityOf(value, level) ==
    IF level # None THEN <<Predicate("Severity", level[1])>>
    ELSE IF ParseU32(value) # None THEN <<Predicate("Severity", ParseU32(value)[1])>>
    ELSE <<>>

\* C21, as stated: a token with key sev or s gives Severity(12), (8), (4),
\* (0) for critical, high, medium, low in any case, Severity(n) for a value
\* that parses as the unsigned integer n, and no predicate for every other
\* value.
C21_SeverityOfNamedLevelOrNumber ==
    OneSeverityToken =>
        app.agent_filter.predicates
           = SeverityOf(ValueOf(TheToken), LevelOfName(ToLowercase(ValueOf(TheToken))))

\* C21, amended: as above, and crit and med in any case give Severity(12)
\* and Severity(4) as well.
C21_SeverityOfNamedLevelShortNameOrNumber ==
    OneSeverityToken =>
        LET value == ValueOf(TheToken)
            name == ToLowercase(value)
        IN  app.agent_filter.predicates
               = SeverityOf(value, IF LevelOfName(name) # None THEN LevelOfName(name)
                                   ELSE LevelOfShortName(name))

\* a number typed after a severity key, with a leading zero and a digit
\* typed behind it, has been parsed into its value
C21_Witness ==
    /\ budget.keys < MaxSeverityKeys
    /\ app.search_query = <<"S", "e", "v", ":", "0", "1", "5", "0">>
    /\ app.agent_filter.predicates = <<Predicate("Severity", 150)>>

(***************************************************************************)
(* The claims about matches, checked under SpecMatch on the frame that     *)
(* draw_agent_list has drawn with the filter.                              *)
(***************************************************************************)

\* the frame of this iteration has been drawn
Drawn == mainPc = "input"

\* the agent is a row of the frame
Listed(agent) == \E i \in DOMAIN filtered_agents : filtered_agents[i] = agent

IsSeverity(pred) == pred.kind = "Severity"

IsNotSeverity(pred) == pred.kind # "Severity"

\* C22: an agent is listed if and only if every predicate of the filter
\* holds for it; with an empty predicate list every agent is listed.
C22_ListedIffAllPredicatesHold ==
    Drawn =>
        /\ \A i \in DOMAIN app.agents :
              Listed(app.agents[i])
                 <=> \A j \in DOMAIN app.agent_filter.predicates :
                        PredicateHolds(app.agent_filter.predicates[j], app.agents[i])
        /\ app.agent_filter.predicates = <<>> => filtered_agents = app.agents

\* a filter of two predicates, the first of which holds for the agent and
\* the second does not, has been drawn: the agent is not listed
C22_Witness ==
    /\ Drawn
    /\ Len(app.agent_filter.predicates) = 2
    /\ PredicateHolds(app.agent_filter.predicates[1], app.agents[1])
    /\ ~PredicateHolds(app.agent_filter.predicates[2], app.agents[1])
    /\ IsNotSeverity(app.agent_filter.predicates[2])
    /\ filtered_agents = <<>>

\* the agent with its name, id, ip and os name in lower case
LowerCaseAgent(agent) ==
    [agent EXCEPT !.name = ToLowercase(@),
                  !.id = ToLowercase(@),
                  !.ip = IF @ = None THEN None ELSE Some(ToLowercase(@[1])),
                  !.os = IF @ = None \/ @[1].name = None THEN @
                         ELSE Some([name |-> Some(ToLowercase(@[1].name[1]))])]

\* C23: the letter case of the agent's name, id, ip and os name does not
\* change whether the agent is listed, and a filter of one Status predicate
\* lists the agent exactly when its lower-cased status equals the value.
C23_CaseOfAgentNeverMatters ==
    Drawn /\ app.agent_filter.raw_query # <<>> =>
        \A i \in DOMAIN app.agents :
            /\ Listed(app.agents[i])
                  <=> Matches(app.agent_filter, LowerCaseAgent(app.agents[i]))
            /\ /\ Len(app.agent_filter.predicates) = 1
               /\ app.agent_filter.predicates[1].kind = "Status"
               => (Listed(app.agents[i])
                     <=> ToLowercase(app.agents[i].status)
                            = app.agent_filter.predicates[1].value)

\* the filter without its Severity predicates
WithoutSeverity(filter) ==
    [filter EXCEPT !.predicates = SelectSeq(@, IsNotSeverity)]

\* the filter with one more Severity predicate
WithSeverity(filter, n) ==
    [filter EXCEPT !.predicates = Append(@, Predicate("Severity", n))]

\* C24: the agents listed are those the filter without its Severity
\* predicates matches, and those the filter with one more Severity
\* predicate matches.
C24_SeverityNeverChangesMatches ==
    Drawn /\ app.agent_filter.raw_query # <<>> =>
        \A i \in DOMAIN app.agents :
            /\ Listed(app.agents[i])
                  <=> Matches(WithoutSeverity(app.agent_filter), app.agents[i])
            /\ Listed(app.agents[i])
                  <=> Matches(WithSeverity(app.agent_filter, 7), app.agents[i])

\* a filter of a Severity predicate and a predicate that holds has been
\* drawn: the agent is listed
C24_Witness ==
    /\ Drawn
    /\ Len(app.agent_filter.predicates) = 2
    /\ IsSeverity(app.agent_filter.predicates[1])
    /\ IsNotSeverity(app.agent_filter.predicates[2])
    /\ filtered_agents = app.agents

\* containment without regard to letter case
ContainsIgnoringCase(str, pat) == Contains(ToLowercase(str), ToLowercase(pat))

\* C25: with a filter of one Global predicate the agent is listed if and
\* only if the value is a substring, without regard to case, of its name,
\* its id or its ip; status and os play no part.
C25_GlobalIffInNameIdOrIp ==
    /\ Drawn
    /\ Len(app.agent_filter.predicates) = 1
    /\ app.agent_filter.predicates[1].kind = "Global"
    => \A i \in DOMAIN app.agents :
          LET agent == app.agents[i]
              value == app.agent_filter.predicates[1].value
          IN  Listed(agent)
                <=> \/ ContainsIgnoringCase(agent.name, value)
                    \/ ContainsIgnoringCase(agent.id, value)
                    \/ agent.ip # None /\ ContainsIgnoringCase(agent.ip[1], value)

(***************************************************************************)
(* The claims about the query of get_logs, checked under SpecLogs.         *)
(***************************************************************************)

\* the caller has posted the query of a get_logs
Posted(p) == call[p].args # None /\ call[p].sent # <<>>

ArgsOf(p) == call[p].args[1]

QueryOf(p) == call[p].sent[1].body[1]

MustOf(p) == QueryOf(p).query.bool.must

\* the clause tests, or ranges over, the field
ClauseOn(clause, field) ==
    \E k \in DOMAIN clause : k # "bool" /\ field \in DOMAIN clause[k]

\* the clauses of `must` on the field, in order
ClausesOn(must, field) == SelectSeq(must, LAMBDA clause : ClauseOn(clause, field))

\* C26: with a LogFilter the query has exactly one clause on rule.level:
\* for Min a range with only gte = val1, for Max a range with only
\* lte = val1, for Exact a term equal to val1, for Range a range with
\* gte = val1 and lte = val2; outside Range the query is the same for every
\* val2.
C26_OneSeverityClauseByMode ==
    \A p \in DOMAIN call :
        Posted(p) /\ ArgsOf(p).filter # None =>
            LET f == ArgsOf(p).filter[1]
                level == ClausesOn(MustOf(p), "rule.level")
            IN  /\ Len(level) = 1
                /\ f.mode = "Min" =>
                      level[1] = [range |-> ("rule.level" :> [gte |-> f.val1])]
                /\ f.mode = "Max" =>
                      level[1] = [range |-> ("rule.level" :> [lte |-> f.val1])]
                /\ f.mode = "Exact" => level[1] = [term |-> ("rule.level" :> f.val1)]
                /\ f.mode = "Range" =>
                      level[1] = [range |-> ("rule.level" :>
                                     [gte |-> f.val1, lte |-> f.val2])]
                /\ f.mode # "Range" =>
                      \A other \in {0, 14, 15} :
                          QueryOf(p) = LogsQuery([ArgsOf(p) EXCEPT
                                          !.filter = Some([f EXCEPT !.val2 = other])])

\* a query has been posted for a filter in Exact mode: its second clause is
\* the term
C26_Witness ==
    \E p \in DOMAIN call :
        /\ call[p].pc = "done"
        /\ call[p].ret.kind = "Ok"
        /\ Posted(p)
        /\ ArgsOf(p).filter # None
        /\ ArgsOf(p).filter[1].mode = "Exact"
        /\ ArgsOf(p).filter[1].val1 = 12
        /\ MustOf(p)[2] = [term |-> ("rule.level" :> 12)]

\* the positions of the separators of a comma-separated text, with the
\* position before its first char and the one behind its last
CommaBounds(str) ==
    {0, Len(str) + 1} \cup { i \in 1..Len(str) : str[i] = "," }

\* the text without the spaces at its ends
Trimmed(str) ==
    LET keep == { i \in 1..Len(str) : str[i] # " " }
    IN  IF keep = {} THEN <<>>
        ELSE SubSeq(str, CHOOSE i \in keep : \A j \in keep : i <= j,
                         CHOOSE i \in keep : \A j \in keep : i >= j)

\* the comma-separated parts of the text, trimmed, in order
TrimmedParts(str) ==
    LET bounds == CommaBounds(str)
        Nth(k) == CHOOSE b \in bounds : Cardinality({ x \in bounds : x < b }) = k - 1
    IN  [k \in 1..(Cardinality(bounds) - 1) |->
            Trimmed(SubSeq(str, Nth(k) + 1, Nth(k + 1) - 1))]

HasChar(str, c) == \E i \in 1..Len(str) : str[i] = c

\* C27: a rule-id filter that is not empty gives exactly one clause on
\* rule.id: terms over the trimmed comma-separated parts when it holds a
\* ',', otherwise a wildcard when it holds a '*', otherwise a term; an empty
\* one, like no filter, gives none.
C27_OneRuleIdClause ==
    \A p \in DOMAIN call :
        Posted(p) =>
            LET ruleId == ClausesOn(MustOf(p), "rule.id")
                text == IF ArgsOf(p).filter = None THEN <<>>
                        ELSE ArgsOf(p).filter[1].rule_id_filter
            IN  IF text = <<>> THEN ruleId = <<>>
                ELSE /\ Len(ruleId) = 1
                     /\ ruleId[1] =
                          IF HasChar(text, ",")
                            THEN [terms |-> ("rule.id" :> TrimmedParts(text))]
                          ELSE IF HasChar(text, "*")
                            THEN [wildcard |-> ("rule.id" :> [value |-> text])]
                          ELSE [term |-> ("rule.id" :> text)]

\* a query has been posted for a rule-id filter with both ',' and '*': its
\* clause is the terms over the two parts
C27_Witness ==
    \E p \in DOMAIN call :
        /\ call[p].pc = "done"
        /\ Posted(p)
        /\ ArgsOf(p).filter # None
        /\ ArgsOf(p).filter[1].rule_id_filter = <<"5", "*", ",", "5", "8">>
        /\ ClausesOn(MustOf(p), "rule.id")
              = << [terms |-> ("rule.id" :> << <<"5", "*">>, <<"5", "8">> >>)] >>

\* the clause is the bool of the MITRE filter
IsMitreClause(clause) == "bool" \in DOMAIN clause

\* 1 when the text is not empty, else 0
Count(text) == IF text = <<>> THEN 0 ELSE 1

\* C28: the first must clause is the time range; with a filter, the clauses
\* on agent.name, rule.id and rule.description and the MITRE clause are
\* there exactly when their text is not empty, and without a filter none
\* is; the agent.id term is the last clause exactly when an agent id is
\* given; the sort is descending @timestamp; from and size are offset and
\* limit; the number of must clauses is 1 + (with a filter: 1 + the number
\* of texts that are not empty) + (with an agent id: 1).
C28_ShapeOfQuery ==
    \A p \in DOMAIN call :
        Posted(p) =>
            LET args == ArgsOf(p)
                must == MustOf(p)
                f == IF args.filter = None
                       THEN [agent_filter |-> <<>>, rule_id_filter |-> <<>>,
                             description_filter |-> <<>>, mitre_filter |-> <<>>]
                       ELSE args.filter[1]
            IN  /\ ClauseOn(must[1], "@timestamp") /\ "range" \in DOMAIN must[1]
                /\ Len(ClausesOn(must, "@timestamp")) = 1
                /\ Len(ClausesOn(must, "agent.name")) = Count(f.agent_filter)
                /\ Len(ClausesOn(must, "rule.id")) = Count(f.rule_id_filter)
                /\ Len(ClausesOn(must, "rule.description")) = Count(f.description_filter)
                /\ Len(SelectSeq(must, IsMitreClause)) = Count(f.mitre_filter)
                /\ IF args.agent_id = None
                     THEN ClausesOn(must, "agent.id") = <<>>
                     ELSE /\ must[Len(must)] = [term |-> ("agent.id" :> args.agent_id[1])]
                          /\ Len(ClausesOn(must, "agent.id")) = 1
                /\ QueryOf(p).sort = << ("@timestamp" :> [order |-> "desc"]) >>
                /\ QueryOf(p).from = args.offset
                /\ QueryOf(p).size = args.limit
                /\ Len(must) =
                      1 + (IF args.filter = None THEN 0
                           ELSE 1 + Count(f.agent_filter) + Count(f.rule_id_filter)
                                  + Count(f.description_filter) + Count(f.mitre_filter))
                        + (IF args.agent_id = None THEN 0 ELSE 1)

\* a query has been posted for an agent id and a filter with every text:
\* seven must clauses, the agent.id term last
C28_Witness ==
    \E p \in DOMAIN call :
        /\ call[p].pc = "done"
        /\ Posted(p)
        /\ ArgsOf(p).offset = 50
        /\ Len(MustOf(p)) = 7
        /\ MustOf(p)[1] = [range |-> ("@timestamp" :>
                              [gte |-> <<"n", "o", "w", "-", "1", "4", "4", "0", "m">>,
                               lte |-> "now"])]
        /\ MustOf(p)[3] = [wildcard |-> ("agent.name" :>
                              [value |-> <<"*", "w", "e", "b", "*">>,
                               case_insensitive |-> TRUE])]
        /\ MustOf(p)[7] = [term |-> ("agent.id" :> <<"0", "0", "1">>)]

(***************************************************************************)
(* A claim about the search operations, checked under SpecApi.             *)
(***************************************************************************)

\* C29: a get_vulnerabilities or get_logs (the steps from idle to done)
\* without os_url returns the configuration error, has sent no HTTP call
\* and leaves the Credential Cell as it is; with os_url it does not return
\* that error.
C29_ConfigErrorWithoutRequest ==
    [][\A p \in DOMAIN call :
          call[p].pc = "idle" /\ call'[p].pc = "done" =>
              IF ~config.os_url
                THEN /\ call'[p].ret = ConfigError
                     /\ call'[p].sent = <<>>
                     /\ call'[p].wire = <<>>
                     /\ token' = token
                ELSE call'[p].ret # ConfigError]_vars

\* with a token in the cell, a search operation has returned the
\* configuration error
C29_Witness ==
    \E p \in DOMAIN call :
        /\ token # None
        /\ ~config.os_url
        /\ call[p].pc = "done"
        /\ call[p].ret = ConfigError
        /\ call[p].wire = <<>>

(***************************************************************************)
(* The claim about get_summary, checked under SpecSummary.                 *)
(***************************************************************************)

\* how many agents of the page have the status
WithStatus(items, status) ==
    Cardinality({ i \in DOMAIN items : items[i].status = status })

\* C30: each agent of the page is counted in the bucket of its status,
\* active, disconnected or never_connected, and in none when its status is
\* another; so the three buckets add up to the number of agents with one of
\* these statuses, which is at most the number of agents of the page (the
\* backend's answer to limit=500); total is the backend's
\* total_affected_items.
C30_BucketsCountRecognisedStatuses ==
    \A p \in DOMAIN call :
        call[p].ret.kind = "Summary" =>
            LET items == call[p].response[1].affected_items
                summary == call[p].ret.body
                sum == summary.active + summary.disconnected + summary.never_connected
            IN  /\ summary.active = WithStatus(items, "active")
                /\ summary.disconnected = WithStatus(items, "disconnected")
                /\ summary.never_connected = WithStatus(items, "never_connected")
                /\ sum = Cardinality({ i \in DOMAIN items : items[i].status \in
                              {"active", "disconnected", "never_connected"} })
                /\ sum <= Len(items)
                /\ summary.total = call[p].response[1].total_affected_items

\* a page with an agent in another status and a total beyond the page has
\* been counted: the buckets add up to less than the page and the total
C30_Witness ==
    \E p \in DOMAIN call :
        /\ call[p].ret.kind = "Summary"
        /\ call[p].response[1].affected_items
              = << [status |-> "active"], [status |-> "pending"], [status |-> "active"] >>
        /\ call[p].ret.body = AgentSummary(4, 2, 0, 0)

(***************************************************************************)
(* C31  get_vulnerabilities returns total_affected_items equal to          *)
(* hits.total.value of the search response, however many hits are          *)
(* returned, and one item per hit in hit order: cve, severity and title    *)
(* from the hit's vulnerability object, an absent severity as "-";         *)
(* package, name and version from its package object, all three None when  *)
(* the hit has no package.                                                 *)
(***************************************************************************)
\* the hits of the response a returned get_vulnerabilities has converted
HitsOf(p) == call[p].response[1].hits.hits

\* item, the i-th of the result, is built from the i-th hit
BuiltFromHit(item, src) ==
    /\ item.cve = src.vulnerability.id
    /\ item.title = src.vulnerability.description
    /\ item.severity = IF src.vulnerability.severity = None
                         THEN "-" ELSE src.vulnerability.severity[1]
    /\ (item.package = None) <=> (src.package = None)
    /\ src.package = None => item.name = None /\ item.version = None
    /\ src.package # None =>
          /\ item.name = src.package[1].name
          /\ item.version = src.package[1].version
          /\ src.package[1].name # None => item.package[1].name = src.package[1].name[1]
          /\ src.package[1].version # None =>
                item.package[1].version = src.package[1].version[1]

C31_OneItemPerHit ==
    \A p \in DOMAIN call :
        (call[p].pc = "done" /\ call[p].ret.kind = "Ok" /\ call[p].response # None) =>
            LET data == call[p].ret.body.data
            IN /\ data.total_affected_items = call[p].response[1].hits.total.value
               /\ Len(data.affected_items) = Len(HitsOf(p))
               /\ \A i \in 1..Len(HitsOf(p)) :
                     BuiltFromHit(data.affected_items[i], HitsOf(p)[i]._source)

\* a response of two different hits, of seven matches, converted: the first
\* hit has neither severity nor description nor package, the second has a
\* package without a name
C31_Witness ==
    \E p \in DOMAIN call :
        /\ call[p].pc = "done"
        /\ call[p].ret.kind = "Ok"
        /\ call[p].response # None
        /\ call[p].response[1].hits.total.value = 7
        /\ Len(HitsOf(p)) = 2
        /\ HitsOf(p)[1]._source.vulnerability =
              [id |-> "CVE-2", severity |-> None, description |-> None]
        /\ HitsOf(p)[1]._source.package = None
        /\ HitsOf(p)[2]._source.vulnerability.id = "CVE-1"
        /\ HitsOf(p)[2]._source.package = Some([name |-> None, version |-> Some("23.3.1")])
        /\ call[p].ret.body.data.affected_items[1].severity = "-"

(***************************************************************************)
(* C32  For every component name, the requests of get_agent_config and of  *)
(* update_agent_config go to the path                                      *)
(* /agents/{id}/config/{component}/{section}, where the section is         *)
(* localfile for logcollector, client for agent, global for analysis and   *)
(* the component name for every other component.                           *)
(***************************************************************************)
\* the alias table
SectionOf(component) ==
    IF component = "logcollector" THEN "localfile"
    ELSE IF component = "agent" THEN "client"
    ELSE IF component = "analysis" THEN "global"
    ELSE component

IsConfigCall(p) ==
    /\ call[p].args # None
    /\ call[p].args[1].op \in {"get_agent_config", "update_agent_config"}

C32_BothAddressTheSamePath ==
    \A p \in DOMAIN call :
        IsConfigCall(p) =>
            LET a == call[p].args[1]
                path == <<"agents", a.agent_id, "config", a.component,
                          SectionOf(a.component)>>
            IN /\ call[p].req.url = path
               /\ \A i \in 1..Len(call[p].sent) : call[p].sent[i].url = path

\* an update_agent_config of the analysis component has sent its request and
\* its retry
C32_Witness ==
    \E p \in DOMAIN call :
        /\ IsConfigCall(p)
        /\ call[p].args[1].op = "update_agent_config"
        /\ call[p].args[1].component = "analysis"
        /\ Len(call[p].sent) = 2
        /\ call[p].sent[2].url = <<"agents", "002", "config", "analysis", "global">>

(***************************************************************************)
(* C33  get_logs and get_vulnerabilities return an error to the caller     *)
(* when the search endpoint answers with a non-success status: no          *)
(* operation that posted to the search endpoint and received such a        *)
(* status returns a successful result.                                     *)
(***************************************************************************)
\* caller p has posted to the search endpoint and received a response
SearchAnsweredTo(p) ==
    /\ call[p].pc = "done"
    /\ call[p].wire # <<>>
    /\ call[p].wire[1].to = "search"
    /\ call[p].first # 0

C33_SearchFailsOnNonSuccessStatus ==
    \A p \in DOMAIN call :
        (SearchAnsweredTo(p) /\ ~IsSuccess(call[p].first)) => call[p].ret.kind # "Ok"

(***************************************************************************)
(* C34  When the request retried after a 401 is answered with a            *)
(* non-success status S2, the error request() returns reports S2, the      *)
(* status of the response that failed, together with that response's body. *)
(***************************************************************************)
C34_RetryErrorReportsRetryStatus ==
    \A p \in Callers :
        ( /\ call[p].pc = "done"
          /\ call[p].second # 0
          /\ ~IsSuccess(call[p].second)
          /\ call[p].ret.kind = "HttpStatusError" ) =>
            /\ call[p].ret.status = call[p].second
            /\ call[p].ret.body = 2

(***************************************************************************)
(* C35  The retry after a 401 carries the token that the authenticate()    *)
(* this same call made after the 401 has returned, not the local that was  *)
(* rejected.  That authenticate() also writes its token into the cell, and *)
(* the cell changes in no other step, so the cell holds the token of the   *)
(* last authenticate() to complete, which with concurrent callers need not *)
(* be the token a caller is sending.                                       *)
(***************************************************************************)
\* the last HTTP call caller p has made, in the next state
LastCallNext(p) == call'[p].wire[Len(call'[p].wire)]

C35_RetryCarriesOwnFreshToken ==
    [][ /\ \A p \in Callers :
              \* authenticate() returns into the 401 branch
           /\ (call[p].pc = "restore" /\ call'[p].pc # "restore") =>
                 /\ call'[p].pc = "send2"
                 /\ call'[p].tok = call[p].fresh
                 /\ call'[p].tokFrom = FromAuthenticate
                 /\ token' = call[p].fresh
              \* nothing rebinds the local before the retry is sent
           /\ (call[p].pc = "send2" /\ call'[p].pc = "send2") =>
                 call'[p].tok = call[p].tok
              \* the retry is sent
           /\ (call[p].pc = "send2" /\ call'[p].pc # "send2") =>
                 /\ call[p].tok # None
                 /\ call[p].tokFrom = FromAuthenticate
                 /\ Len(call'[p].wire) = Len(call[p].wire) + 1
                 /\ LastCallNext(p) = HttpCall("api", BearerAuth(FromAuthenticate))
        /\ token' # token =>
              \E q \in Callers :
                 /\ call[q].pc \in {"store", "restore"}
                 /\ call'[q].pc # call[q].pc
                 /\ token' = call[q].fresh ]_vars

\* a caller is about to send its retry with the token its reauthentication
\* returned, while the cell holds the token another caller's authenticate()
\* has stored since
C35_Witness ==
    \E p, q \in Callers :
        /\ p # q
        /\ call[p].pc = "send2"
        /\ call[p].reauths = 1
        /\ call[p].tokFrom = FromAuthenticate
        /\ token # None
        /\ call[p].tok # token
        /\ call[q].auths >= 1
        /\ call[q].tok = token

(***************************************************************************)
(* C36  The channel never holds more than 100 undelivered messages.  A     *)
(* send adds its message at the end of the channel, and only while fewer   *)
(* than 100 are queued: a full channel changes only by the drain loop      *)
(* taking its oldest message, so no message is dropped or overwritten.  A  *)
(* send ends without its message queued only once main() has left the      *)
(* loop.                                                                   *)
(***************************************************************************)
\* a step in which a spawned operation completes a send
IsSendStep == budget'.messages < budget.messages

C36_FullChannelMakesSendersWait ==
    [][ /\ Len(chan') <= ChannelCapacity
        /\ IsSendStep =>
              \/ /\ Len(chan) < ChannelCapacity
                 /\ Len(chan') = Len(chan) + 1
                 /\ SubSeq(chan', 1, Len(chan)) = chan
              \/ /\ Stopped
                 /\ chan' = chan
        /\ (~IsSendStep /\ chan' # chan) =>
              /\ mainPc = "drain"
              /\ chan' = Tail(chan)
              /\ Head(chan) \in applied'
        /\ (Len(chan) = ChannelCapacity /\ chan' # chan) => ~IsSendStep ]_vars

\* the channel is full again with the message sent after the hundredth: the
\* drain loop has taken one message, and the send that follows the hundredth
\* has completed
C36_Witness ==
    /\ Len(chan) = ChannelCapacity
    /\ Cardinality(applied) = 1
    /\ chan[Len(chan)].payload = ChannelCapacity + 1
    /\ budget.messages = MaxOverflow - 1

(***************************************************************************)
(* C38  After any sequence of applied Agents / GroupAgents messages and    *)
(* of next_item, previous_item, scroll_up and scroll_down, whenever        *)
(* app.agents is not empty selected_agent_index is smaller than            *)
(* app.agents.len(), so get_selected_agent returns an agent.               *)
(***************************************************************************)
C38_SelectionWithinAgents ==
    app.agents # <<>> =>
        /\ app.selected_agent_index < Len(app.agents)
        /\ GetSelectedAgent(app) # None

(***************************************************************************)
(* C37  In the agent list, the agent Enter acts on, the one                *)
(* get_selected_agent returns, is the agent the frame on screen shows      *)
(* highlighted, also while a search filter hides some of the agents.       *)
(***************************************************************************)
EnterInspects ==
    /\ mainPc = "input"
    /\ app.active_view = "AgentList"
    /\ app'.active_view = "AgentInspector"

C37_EnterActsOnHighlightedAgent ==
    [][ (EnterInspects /\ app.table_state[1] < Len(filtered_agents))
            => \A shown \in HighlightedRows(app, filtered_agents) :
                   GetSelectedAgent(app') = Some(shown) ]_vars

(***************************************************************************)
(* C39  In the security-events view the fetch of the events spawned last   *)
(* was issued with the offset app.log_offset, the limit app.log_limit and  *)
(* the filter app.log_filter, or none while that filter is the default.    *)
(***************************************************************************)
EventsFetches == { t \in DOMAIN tasks : tasks[t].args # None }

LastEventsFetch == tasks[CHOOSE t \in EventsFetches : \A u \in EventsFetches : u <= t]

\* a fetch without filter is taken as one with app.log_filter as long as
\* the user has set no filter
IssuedWithFilter(filter, a) ==
    \/ filter = Some(a.log_filter)
    \/ filter = None /\ a.log_filter = DefaultLogFilter

C39_LastFetchIsOfTheCurrentPage ==
    (app.active_view = "SecurityEvents" /\ EventsFetches # {}) =>
        /\ LastEventsFetch.args[1].offset = app.log_offset
        /\ LastEventsFetch.args[1].limit = app.log_limit
        /\ IssuedWithFilter(LastEventsFetch.args[1].filter, app)

====
